---- MODULE Spec2Model ----
(***************************************************************************)
(* CronFlow: cron expression compiler (CronParser), predicate matcher and  *)
(* occurrence scheduler (CronScheduler), and the hybrid natural-language   *)
(* translator (NaturalLanguageParser).                                     *)
(*                                                                         *)
(* Strings are sequences of one-character strings, so that split, test and *)
(* parseInt are computed the way the JavaScript computes them.             *)
(* A Date is [min, ms]: whole minutes since 2026-01-01 00:00 local time    *)
(* and the milliseconds within that minute; local time has no DST shift.   *)
(***************************************************************************)
EXTENDS Integers, Sequences, FiniteSets, TLC

(***************************************************************************)
(* JavaScript values that are not integers.                                *)
(***************************************************************************)
NaN == -1000000
Undefined == -1000001

IsNum(x) == x # NaN /\ x # Undefined

\* a >= b, a <= b, a > b, a < b on JavaScript numbers: false when either is NaN
JsGe(a, b) == IsNum(a) /\ IsNum(b) /\ a >= b
JsLe(a, b) == IsNum(a) /\ IsNum(b) /\ a <= b
JsGt(a, b) == IsNum(a) /\ IsNum(b) /\ a > b
JsLt(a, b) == IsNum(a) /\ IsNum(b) /\ a < b

(***************************************************************************)
(* Strings                                                                 *)
(***************************************************************************)
Digits == <<"0", "1", "2", "3", "4", "5", "6", "7", "8", "9">>

IsDigit(c) == \E i \in 1..10 : Digits[i] = c

DigitVal(c) == (CHOOSE i \in 1..10 : Digits[i] = c) - 1

\* index of the first element of s at or after position i that satisfies
\* "is sep" (want = TRUE) or "is not sep" (want = FALSE); Len(s)+1 if none
RECURSIVE IndexFrom(_, _, _, _)
IndexFrom(s, i, sep, want) ==
    IF i > Len(s) THEN Len(s) + 1
    ELSE IF (s[i] = sep) = want THEN i
    ELSE IndexFrom(s, i + 1, sep, want)

\* String.prototype.split(sep) for a one-character separator
RECURSIVE Split(_, _)
Split(s, sep) ==
    LET i == IndexFrom(s, 1, sep, TRUE) IN
    IF i > Len(s) THEN <<s>>
    ELSE <<SubSeq(s, 1, i - 1)>> \o Split(SubSeq(s, i + 1, Len(s)), sep)

\* String.prototype.split(/\s+/): a run of blanks is one separator
RECURSIVE SplitWs(_)
SplitWs(s) ==
    LET i == IndexFrom(s, 1, " ", TRUE) IN
    IF i > Len(s) THEN <<s>>
    ELSE LET j == IndexFrom(s, i, " ", FALSE) IN
         <<SubSeq(s, 1, i - 1)>> \o SplitWs(SubSeq(s, j, Len(s)))

\* value of a string of digits
RECURSIVE DigitsValue(_, _)
DigitsValue(s, acc) ==
    IF s = <<>> THEN acc
    ELSE DigitsValue(Tail(s), acc * 10 + DigitVal(Head(s)))

\* number of leading digits of s
RECURSIVE LeadingDigits(_)
LeadingDigits(s) ==
    IF s = <<>> \/ ~IsDigit(Head(s)) THEN 0
    ELSE 1 + LeadingDigits(Tail(s))

\* parseInt(s): optional sign, then the longest prefix of digits; NaN if none
\* (so parseInt of the string form of undefined is NaN)
ParseInt(s) ==
    LET neg  == Len(s) > 0 /\ s[1] = "-"
        body == IF neg THEN Tail(s) ELSE s
        n    == LeadingDigits(body)
    IN IF n = 0 THEN NaN
       ELSE IF neg THEN 0 - DigitsValue(SubSeq(body, 1, n), 0)
       ELSE DigitsValue(SubSeq(body, 1, n), 0)

Contains(s, c) == \E i \in 1..Len(s) : s[i] = c

\* a missing string (undefined where a string is expected)
UndefinedStr == <<"undefined">>

\* element i of a JavaScript array of strings: undefined past the end
At(arr, i) == IF i <= Len(arr) THEN arr[i] ELSE UndefinedStr

(***************************************************************************)
(* CronParser                                                              *)
(***************************************************************************)
\* /^[0-9,\-\*/]+$/.test(field)
ValidChars(field) ==
    /\ Len(field) > 0
    /\ \A i \in 1..Len(field) : IsDigit(field[i]) \/ field[i] \in {",", "-", "*", "/"}

Ok(v) == [ok |-> TRUE, value |-> v]
Err(e) == [ok |-> FALSE, error |-> e]

\* validateField: the error it throws, or "none"
validateField(field, name, min, max) ==
    IF field = <<>> THEN "EMPTY_FIELD"
    ELSE IF ~ValidChars(field) THEN "INVALID_CHARACTERS"
    ELSE "none"

\* parseStepField
parseStepField(field, min, max) ==
    LET halves  == Split(field, "/")
        range   == At(halves, 1)
        step    == At(halves, 2)
        stepNum == ParseInt(step)
    IN IF stepNum = NaN \/ stepNum <= 0 THEN Err("INVALID_STEP")
       ELSE IF range = <<"*">>
            THEN Ok([type |-> "step", step |-> stepNum, min |-> min, max |-> max])
            ELSE LET bounds == Split(range, "-")
                     rangeMin == IF Len(bounds) >= 1 THEN ParseInt(bounds[1]) ELSE Undefined
                     rangeMax == IF Len(bounds) >= 2 THEN ParseInt(bounds[2]) ELSE Undefined
                 IN Ok([type |-> "rangeStep", step |-> stepNum,
                        min |-> rangeMin, max |-> rangeMax])

\* parseRangeField
parseRangeField(field) ==
    LET parts == Split(field, "-") IN
    IF Len(parts) # 2 THEN Err("INVALID_RANGE_FORMAT")
    ELSE LET rangeMin == ParseInt(parts[1])
             rangeMax == ParseInt(parts[2])
         IN IF rangeMin = NaN \/ rangeMax = NaN THEN Err("INVALID_RANGE_VALUES")
            ELSE IF rangeMin > rangeMax THEN Err("INVALID_RANGE_ORDER")
            ELSE Ok([type |-> "range", min |-> rangeMin, max |-> rangeMax])

\* parseListField
parseListField(field) ==
    LET items  == Split(field, ",")
        values == [i \in 1..Len(items) |-> ParseInt(items[i])]
    IN IF \E i \in 1..Len(values) : values[i] = NaN THEN Err("INVALID_LIST_VALUE")
       ELSE Ok([type |-> "list", values |-> values])

\* parseSingleValue
parseSingleValue(field, min, max) ==
    LET value == ParseInt(field) IN
    IF value = NaN THEN Err("INVALID_VALUE")
    ELSE IF value < min \/ value > max THEN Err("OUT_OF_RANGE")
    ELSE Ok([type |-> "value", value |-> value])

\* parseField
parseField(field, min, max) ==
    IF field = <<"*">> THEN Ok([type |-> "any"])
    ELSE IF Contains(field, "/") THEN parseStepField(field, min, max)
    ELSE IF Contains(field, "-") THEN parseRangeField(field)
    ELSE IF Contains(field, ",") THEN parseListField(field)
    ELSE parseSingleValue(field, min, max)

FieldNames == <<"minute", "hour", "day", "month", "weekday">>
FieldMin == <<0, 0, 1, 1, 0>>
FieldMax == <<59, 23, 31, 12, 7>>

\* the first element of a sequence of error tags that is an error, or "none"
RECURSIVE FirstError(_)
FirstError(errs) ==
    IF errs = <<>> THEN "none"
    ELSE IF Head(errs) # "none" THEN Head(errs)
    ELSE FirstError(Tail(errs))

\* CronParser.parse: the GrammarSpec, or the error of the first throw
CronParserParse(cronExpression) ==
    LET parts == SplitWs(cronExpression) IN
    IF Len(parts) # 5 THEN Err("INVALID_FIELD_COUNT")
    ELSE LET verr == FirstError([i \in 1..5 |->
                        validateField(parts[i], FieldNames[i], FieldMin[i], FieldMax[i])])
             f == [i \in 1..5 |-> parseField(parts[i], FieldMin[i], FieldMax[i])]
             perr == FirstError([i \in 1..5 |-> IF f[i].ok THEN "none" ELSE f[i].error])
         IN IF verr # "none" THEN Err(verr)
            ELSE IF perr # "none" THEN Err(perr)
            ELSE Ok([minute |-> f[1].value, hour |-> f[2].value, day |-> f[3].value,
                     month |-> f[4].value, weekday |-> f[5].value])

(***************************************************************************)
(* Date: [min |-> minutes since 2026-01-01 00:00, ms |-> 0..59999]         *)
(***************************************************************************)
EpochYear == 2026
\* 2026-01-01 is a Thursday (Date.getDay() = 4)
EpochWeekday == 4

MinutesPerHour == 60
HoursPerDay == 24
MinutesPerDay == 1440

IsLeap(y) == (y % 4 = 0 /\ y % 100 # 0) \/ y % 400 = 0

DaysInMonth(y, m) ==
    IF m = 2 THEN (IF IsLeap(y) THEN 29 ELSE 28)
    ELSE IF m \in {4, 6, 9, 11} THEN 30
    ELSE 31

\* calendar date of day number d counted from the first of month m of year y
RECURSIVE CivilFrom(_, _, _)
CivilFrom(d, y, m) ==
    IF d < DaysInMonth(y, m) THEN [year |-> y, month |-> m, day |-> d + 1]
    ELSE IF m = 12 THEN CivilFrom(d - DaysInMonth(y, m), y + 1, 1)
    ELSE CivilFrom(d - DaysInMonth(y, m), y, m + 1)

DayIndex(date) == date.min \div MinutesPerDay

getMinutes(date) == date.min % MinutesPerHour
getHours(date) == (date.min \div MinutesPerHour) % HoursPerDay
getDate(date) == CivilFrom(DayIndex(date), EpochYear, 1).day
\* Date.getMonth() is 0-indexed
getMonth(date) == CivilFrom(DayIndex(date), EpochYear, 1).month - 1
getDay(date) == (EpochWeekday + DayIndex(date)) % 7

\* a.getTime() > b.getTime()
Later(a, b) == a.min > b.min \/ (a.min = b.min /\ a.ms > b.ms)

\* new Date(now.getTime() + i * 60000)
AddMinutes(now, i) == [min |-> now.min + i, ms |-> now.ms]

\* new Date(now); setDate(getDate() + days); setHours(hours, minutes, 0, 0)
AtDayTime(now, days, hours, minutes) ==
    [min |-> (DayIndex(now) + days) * MinutesPerDay + hours * MinutesPerHour + minutes,
     ms  |-> 0]

(***************************************************************************)
(* CronScheduler                                                           *)
(***************************************************************************)
NEXT_EXECUTIONS_COUNT == 5
LOOKAHEAD_MINUTES == 100
LOOKAHEAD_DAYS == 7

\* mutant of matchesField: 7 is not taken as Sunday
matchesField_NoAlias(value, field, min, max) ==
    CASE field.type = "any" -> TRUE
      [] field.type = "value" -> value = field.value
      [] field.type = "range" ->
            JsGe(value, field.min) /\ JsLe(value, field.max)
      [] field.type = "list" ->
            \E i \in 1..Len(field.values) : field.values[i] = value
      [] field.type \in {"step", "rangeStep"} ->
            /\ JsGe(value, field.min)
            /\ JsLe(value, field.max)
            /\ (value - field.min) % field.step = 0
      [] OTHER -> FALSE

\* mutant of matchesField: a step is counted from 0, not from the minimum
matchesField_StepFromZero(value, field, min, max) ==
    CASE field.type = "any" -> TRUE
      [] field.type = "value" ->
            value = field.value \/ (field.value = 7 /\ value = 0)
      [] field.type = "range" ->
            JsGe(value, field.min) /\ JsLe(value, field.max)
      [] field.type = "list" ->
            \/ \E i \in 1..Len(field.values) : field.values[i] = value
            \/ ((\E i \in 1..Len(field.values) : field.values[i] = 7) /\ value = 0)
      [] field.type = "step" ->
            /\ JsGe(value, field.min)
            /\ JsLe(value, field.max)
            /\ value % field.step = 0
      [] field.type = "rangeStep" ->
            /\ JsGe(value, field.min)
            /\ JsLe(value, field.max)
            /\ (value - field.min) % field.step = 0
      [] OTHER -> FALSE

\* mutant of matchesField: a range that ends at 7 takes Sunday too
matchesField_RangeAlias(value, field, min, max) ==
    CASE field.type = "any" -> TRUE
      [] field.type = "value" ->
            value = field.value \/ (field.value = 7 /\ value = 0)
      [] field.type = "range" ->
            \/ JsGe(value, field.min) /\ JsLe(value, field.max)
            \/ field.max = 7 /\ value = 0
      [] field.type = "list" ->
            \/ \E i \in 1..Len(field.values) : field.values[i] = value
            \/ ((\E i \in 1..Len(field.values) : field.values[i] = 7) /\ value = 0)
      [] field.type \in {"step", "rangeStep"} ->
            /\ JsGe(value, field.min)
            /\ JsLe(value, field.max)
            /\ (value - field.min) % field.step = 0
      [] OTHER -> FALSE

\* CronScheduler.matchesField
matchesField(value, field, min, max) ==
    CASE field.type = "any" -> TRUE
      [] field.type = "value" ->
            value = field.value \/ (field.value = 7 /\ value = 0)
      [] field.type = "range" ->
            JsGe(value, field.min) /\ JsLe(value, field.max)
      [] field.type = "list" ->
            \/ \E i \in 1..Len(field.values) : field.values[i] = value
            \/ ((\E i \in 1..Len(field.values) : field.values[i] = 7) /\ value = 0)
      [] field.type = "step" ->
            /\ JsGe(value, field.min)
            /\ JsLe(value, field.max)
            /\ (value - field.min) % field.step = 0
      [] field.type = "rangeStep" ->
            /\ JsGe(value, field.min)
            /\ JsLe(value, field.max)
            /\ (value - field.min) % field.step = 0
      [] OTHER -> FALSE

\* mutant of matchesCron: the 0-indexed month is compared as it is
matchesCron_MonthZeroBased(date, parsed) ==
    /\ matchesField(getMinutes(date), parsed.minute, 0, 59)
    /\ matchesField(getHours(date), parsed.hour, 0, 23)
    /\ matchesField(getDate(date), parsed.day, 1, 31)
    /\ matchesField(getMonth(date), parsed.month, 1, 12)
    /\ matchesField(getDay(date), parsed.weekday, 0, 7)

\* CronScheduler.matchesCron
matchesCron(date, parsed) ==
    LET minute  == getMinutes(date)
        hour    == getHours(date)
        day     == getDate(date)
        month   == getMonth(date) + 1
        weekday == getDay(date)
    IN /\ matchesField(minute, parsed.minute, 0, 59)
       /\ matchesField(hour, parsed.hour, 0, 23)
       /\ matchesField(day, parsed.day, 1, 31)
       /\ matchesField(month, parsed.month, 1, 12)
       /\ matchesField(weekday, parsed.weekday, 0, 7)

\* executions.some(d => d.getTime() === testDate.getTime())
SomeEqual(executions, testDate) ==
    \E k \in 1..Len(executions) : executions[k] = testDate

\* mutant of QuickScan: the loop tests the count with <= instead of <
RECURSIVE QuickScan_OffByOne(_, _, _, _)
QuickScan_OffByOne(parsed, now, i, executions) ==
    IF i < LOOKAHEAD_MINUTES /\ Len(executions) <= NEXT_EXECUTIONS_COUNT
    THEN LET testDate == AddMinutes(now, i) IN
         QuickScan_OffByOne(parsed, now, i + 1,
                   IF matchesCron(testDate, parsed)
                   THEN Append(executions, testDate) ELSE executions)
    ELSE executions

\* quick scan: the for loop over i (CronScheduler.js:19-25)
RECURSIVE QuickScan(_, _, _, _)
QuickScan(parsed, now, i, executions) ==
    IF i < LOOKAHEAD_MINUTES /\ Len(executions) < NEXT_EXECUTIONS_COUNT
    THEN LET testDate == AddMinutes(now, i) IN
         QuickScan(parsed, now, i + 1,
                   IF matchesCron(testDate, parsed)
                   THEN Append(executions, testDate) ELSE executions)
    ELSE executions

\* mutant of ScanMinutes: the candidate is not tested against the expression
RECURSIVE ScanMinutes_NoMatch(_, _, _, _, _, _)
ScanMinutes_NoMatch(parsed, now, days, hours, minutes, executions) ==
    IF minutes < MinutesPerHour /\ Len(executions) < NEXT_EXECUTIONS_COUNT
    THEN LET testDate == AtDayTime(now, days, hours, minutes) IN
         ScanMinutes_NoMatch(parsed, now, days, hours, minutes + 1,
                     IF /\ Later(testDate, now)
                        /\ ~SomeEqual(executions, testDate)
                     THEN Append(executions, testDate) ELSE executions)
    ELSE executions

\* thorough search: the for loop over minutes (CronScheduler.js:31-42)
RECURSIVE ScanMinutes(_, _, _, _, _, _)
ScanMinutes(parsed, now, days, hours, minutes, executions) ==
    IF minutes < MinutesPerHour /\ Len(executions) < NEXT_EXECUTIONS_COUNT
    THEN LET testDate == AtDayTime(now, days, hours, minutes) IN
         ScanMinutes(parsed, now, days, hours, minutes + 1,
                     IF /\ Later(testDate, now)
                        /\ matchesCron(testDate, parsed)
                        /\ ~SomeEqual(executions, testDate)
                     THEN Append(executions, testDate) ELSE executions)
    ELSE executions

\* the for loop over hours (CronScheduler.js:30-43)
RECURSIVE ScanHours(_, _, _, _, _)
ScanHours(parsed, now, days, hours, executions) ==
    IF hours < HoursPerDay /\ Len(executions) < NEXT_EXECUTIONS_COUNT
    THEN ScanHours(parsed, now, days, hours + 1,
                   ScanMinutes(parsed, now, days, hours, 0, executions))
    ELSE executions

\* the for loop over days (CronScheduler.js:29-44)
RECURSIVE ScanDays(_, _, _, _)
ScanDays(parsed, now, days, executions) ==
    IF days < LOOKAHEAD_DAYS /\ Len(executions) < NEXT_EXECUTIONS_COUNT
    THEN ScanDays(parsed, now, days + 1,
                  ScanHours(parsed, now, days, 0, executions))
    ELSE executions

\* insert d into the ascending sequence s, after the elements not later than d
RECURSIVE InsertSorted(_, _)
InsertSorted(s, d) ==
    IF s = <<>> THEN <<d>>
    ELSE IF Later(Head(s), d) THEN <<d>> \o s
    ELSE <<Head(s)>> \o InsertSorted(Tail(s), d)

\* mutant of SortByTime: the list is returned in the order it was collected
SortByTime_None(s) == s

\* executions.sort((a, b) => a.getTime() - b.getTime())
RECURSIVE SortByTime(_)
SortByTime(s) ==
    IF s = <<>> THEN <<>>
    ELSE InsertSorted(SortByTime(SubSeq(s, 1, Len(s) - 1)), s[Len(s)])

\* mutant of generateNextExecutions: the thorough search starts tomorrow
generateNextExecutions_SkipToday(parsed, now) ==
    LET quick == QuickScan(parsed, now, 0, <<>>)
        full  == IF Len(quick) < NEXT_EXECUTIONS_COUNT
                 THEN ScanDays(parsed, now, 1, quick)
                 ELSE quick
    IN SortByTime(full)

\* CronScheduler.generateNextExecutions, with now = new Date()
generateNextExecutions(parsed, now) ==
    LET quick == QuickScan(parsed, now, 0, <<>>)
        full  == IF Len(quick) < NEXT_EXECUTIONS_COUNT
                 THEN ScanDays(parsed, now, 0, quick)
                 ELSE quick
    IN SortByTime(full)

(***************************************************************************)
(* Inputs                                                                  *)
(***************************************************************************)
\* Number.prototype.toString() of an integer
RECURSIVE NatToStr(_)
NatToStr(n) ==
    IF n < 10 THEN <<Digits[n + 1]>>
    ELSE NatToStr(n \div 10) \o <<Digits[(n % 10) + 1]>>

ToStr(n) == IF n < 0 THEN <<"-">> \o NatToStr(0 - n) ELSE NatToStr(n)

Star == <<"*">>
Sp == <<" ">>
N(n) == ToStr(n)
Every(n) == <<"*", "/">> \o ToStr(n)
Dash(a, b) == ToStr(a) \o <<"-">> \o ToStr(b)
Comma(a, b) == a \o <<",">> \o b
Expr(f1, f2, f3, f4, f5) == f1 \o Sp \o f2 \o Sp \o f3 \o Sp \o f4 \o Sp \o f5

\* expressions given to the scheduler
SchedInputs ==
    { Expr(Star, Star, Star, Star, Star),
      Expr(Every(5), Star, Star, Star, Star),
      Expr(Every(30), Star, Star, Star, Star),
      Expr(N(0), Star, Star, Star, Star),
      Expr(N(30), N(14), Star, Star, Comma(N(1), N(5))),
      Expr(N(0), N(6), Star, Star, N(1)),
      Expr(N(0), N(0), Star, Star, N(7)),
      Expr(N(0), N(0), N(1), Every(3), Star),
      Expr(N(0), N(9), Star, Star, Dash(1, 5)),
      Expr(N(0), N(0), N(31), N(2), Star),
      Expr(Dash(0, 30) \o <<"/">> \o N(10), Star, Star, Star, Star),
      Expr(N(5) \o <<"/">> \o N(2), Star, Star, Star, Star),
      Expr(Comma(N(1), N(99)), Star, Star, Star, Star),
      Expr(N(45), Comma(N(23), N(0)), Star, Star, Star) }

\* malformed expressions given to CronParser.parse
InvalidInputs ==
    { Star \o Sp \o Star \o Sp \o Star \o Sp \o Star,
      <<>>,
      Expr(N(60), Star, Star, Star, Star),
      Expr(Star, Star, N(0), Star, Star),
      Expr(Star, Star, Star, Star, N(8)),
      Expr(<<"a">>, Star, Star, Star, Star),
      Expr(Dash(5, 1), Star, Star, Star, Star),
      Expr(Comma(Dash(1, 5), N(7)), Star, Star, Star, Star),
      Expr(Dash(1, 2) \o <<"-">> \o N(3), Star, Star, Star, Star),
      Expr(Every(0), Star, Star, Star, Star),
      Expr(Comma(N(1), Star), Star, Star, Star, Star),
      Expr(<<"*", "*">>, Star, Star, Star, Star) }

\* expressions given to the matcher
MatchInputs ==
    { Expr(Star, Star, Star, Star, Star),
      Expr(N(30), N(14), Star, Star, Comma(N(1), N(5))),
      Expr(N(0), N(0), Star, Star, N(0)),
      Expr(N(0), N(0), Star, Star, N(7)),
      Expr(N(0), N(12), Star, Star, Comma(N(0), N(3))),
      Expr(N(0), N(12), Star, Star, Comma(N(7), N(3))),
      Expr(N(0), N(0), N(1), Every(3), Star),
      Expr(N(0), N(0), N(1), Comma(Comma(N(1), N(4)), Comma(N(7), N(10))), Star),
      Expr(N(0), N(9), Star, Star, Dash(1, 5)),
      Expr(N(0), N(9), Star, Star, Dash(5, 7)),
      Expr(Star, Star, Star, Star, Dash(5, 7)),
      Expr(Star, Star, Star, Star, Dash(0, 2)),
      Expr(N(0), N(9), N(29), N(2), Star),
      Expr(N(15), N(8), N(1), N(3), Star),
      Expr(N(59), N(23), N(31), N(12), Star),
      Expr(Comma(N(1), N(99)), Star, Star, Star, Star),
      Expr(N(0), N(0), Star, Comma(N(0), N(13)), Star) }

\* the instant of day number dayIndex (counted from 2026-01-01) at the given time
Instant(dayIndex, hours, minutes, ms) ==
    [min |-> dayIndex * MinutesPerDay + hours * MinutesPerHour + minutes, ms |-> ms]

\* the instants at which the clock is read
ClockSamples ==
    << Instant(309, 10, 0, 30000),   \* Fri 2026-11-06 10:00:30.000
       Instant(312, 12, 0, 0),       \* Mon 2026-11-09 12:00:00.000
       Instant(312, 14, 30, 0),      \* Mon 2026-11-09 14:30:00.000
       Instant(364, 23, 30, 15500),  \* Thu 2026-12-31 23:30:15.500
       Instant(422, 23, 10, 0),      \* Sat 2027-02-27 23:10:00.000
       Instant(374, 6, 0, 1),        \* Sun 2027-01-10 06:00:00.001
       Instant(424, 22, 45, 0) >>    \* Mon 2027-03-01 22:45:00.000

\* dates given to matchesCron, each with its calendar components as the
\* calendar has them (weekday 0 is Sunday)
MatchDates ==
    << [date |-> Instant(312, 14, 30, 0), minute |-> 30, hour |-> 14, day |-> 9, month |-> 11, weekday |-> 1],  \* Mon 2026-11-09 14:30
       [date |-> Instant(316, 14, 30, 0), minute |-> 30, hour |-> 14, day |-> 13, month |-> 11, weekday |-> 5],  \* Fri 2026-11-13 14:30
       [date |-> Instant(313, 14, 30, 0), minute |-> 30, hour |-> 14, day |-> 10, month |-> 11, weekday |-> 2],  \* Tue 2026-11-10 14:30
       [date |-> Instant(312, 14, 31, 0), minute |-> 31, hour |-> 14, day |-> 9, month |-> 11, weekday |-> 1],  \* Mon 2026-11-09 14:31
       [date |-> Instant(312, 15, 30, 0), minute |-> 30, hour |-> 15, day |-> 9, month |-> 11, weekday |-> 1],  \* Mon 2026-11-09 15:30
       [date |-> Instant(311, 0, 0, 0), minute |-> 0, hour |-> 0, day |-> 8, month |-> 11, weekday |-> 0],  \* Sun 2026-11-08 00:00
       [date |-> Instant(311, 12, 0, 0), minute |-> 0, hour |-> 12, day |-> 8, month |-> 11, weekday |-> 0],  \* Sun 2026-11-08 12:00
       [date |-> Instant(314, 12, 0, 0), minute |-> 0, hour |-> 12, day |-> 11, month |-> 11, weekday |-> 3],  \* Wed 2026-11-11 12:00
       [date |-> Instant(317, 0, 0, 0), minute |-> 0, hour |-> 0, day |-> 14, month |-> 11, weekday |-> 6],  \* Sat 2026-11-14 00:00
       [date |-> Instant(0, 0, 0, 0), minute |-> 0, hour |-> 0, day |-> 1, month |-> 1, weekday |-> 4],  \* Thu 2026-01-01 00:00
       [date |-> Instant(90, 0, 0, 0), minute |-> 0, hour |-> 0, day |-> 1, month |-> 4, weekday |-> 3],  \* Wed 2026-04-01 00:00
       [date |-> Instant(181, 0, 0, 0), minute |-> 0, hour |-> 0, day |-> 1, month |-> 7, weekday |-> 3],  \* Wed 2026-07-01 00:00
       [date |-> Instant(273, 0, 0, 0), minute |-> 0, hour |-> 0, day |-> 1, month |-> 10, weekday |-> 4],  \* Thu 2026-10-01 00:00
       [date |-> Instant(31, 0, 0, 0), minute |-> 0, hour |-> 0, day |-> 1, month |-> 2, weekday |-> 0],  \* Sun 2026-02-01 00:00
       [date |-> Instant(59, 8, 15, 0), minute |-> 15, hour |-> 8, day |-> 1, month |-> 3, weekday |-> 0],  \* Sun 2026-03-01 08:15
       [date |-> Instant(367, 0, 0, 0), minute |-> 0, hour |-> 0, day |-> 3, month |-> 1, weekday |-> 0],  \* Sun 2027-01-03 00:00
       [date |-> Instant(729, 23, 59, 0), minute |-> 59, hour |-> 23, day |-> 31, month |-> 12, weekday |-> 5],  \* Fri 2027-12-31 23:59
       [date |-> Instant(789, 9, 0, 0), minute |-> 0, hour |-> 9, day |-> 29, month |-> 2, weekday |-> 2],  \* Tue 2028-02-29 09:00
       [date |-> Instant(790, 9, 0, 0), minute |-> 0, hour |-> 9, day |-> 1, month |-> 3, weekday |-> 3],  \* Wed 2028-03-01 09:00
       [date |-> Instant(59, 0, 0, 0), minute |-> 0, hour |-> 0, day |-> 1, month |-> 3, weekday |-> 0],  \* Sun 2026-03-01 00:00
       [date |-> Instant(120, 0, 0, 0), minute |-> 0, hour |-> 0, day |-> 1, month |-> 5, weekday |-> 5],  \* Fri 2026-05-01 00:00
       [date |-> Instant(151, 0, 0, 0), minute |-> 0, hour |-> 0, day |-> 1, month |-> 6, weekday |-> 1],  \* Mon 2026-06-01 00:00
       [date |-> Instant(212, 0, 0, 0), minute |-> 0, hour |-> 0, day |-> 1, month |-> 8, weekday |-> 6],  \* Sat 2026-08-01 00:00
       [date |-> Instant(243, 0, 0, 0), minute |-> 0, hour |-> 0, day |-> 1, month |-> 9, weekday |-> 2],  \* Tue 2026-09-01 00:00
       [date |-> Instant(304, 0, 0, 0), minute |-> 0, hour |-> 0, day |-> 1, month |-> 11, weekday |-> 0],  \* Sun 2026-11-01 00:00
       [date |-> Instant(334, 0, 0, 0), minute |-> 0, hour |-> 0, day |-> 1, month |-> 12, weekday |-> 2],  \* Tue 2026-12-01 00:00
       [date |-> Instant(455, 0, 0, 0), minute |-> 0, hour |-> 0, day |-> 1, month |-> 4, weekday |-> 4] >>  \* Thu 2027-04-01 00:00

\* how many of the dates are used
MaxMatchDates == 26

\* how many of the clock samples are used
MaxClockSamples == 5

(***************************************************************************)
(* Strings and regular expressions of the natural-language parsers         *)
(*                                                                         *)
(* A RegExp literal of the source is written as a tree of the nodes below. *)
(* A match is the result of the backtracking search ECMAScript prescribes: *)
(* the leftmost start position, alternatives left to right, quantifiers    *)
(* greedy.  The search is computed for all its branches at once: a branch  *)
(* is [pos, start, caps, key], where key lists the choices made so far     *)
(* (the start position, the number of the alternative taken, the number of *)
(* characters a quantifier gave back), and the match is the branch that    *)
(* reaches the end of the tree with the least key in dictionary order,     *)
(* which is the first one backtracking finds.  Every RegExp of the source  *)
(* carries the i flag, so the subject is compared in lower case.           *)
(***************************************************************************)
\* the characters of a string literal, one per element
Chars(str) == SubSeq([i \in 1..Len(str) |-> SubSeq(str, i, i)], 1, Len(str))

\* the letters in lower case and in upper case
Alphabet ==
    <<Chars("abcdefghijklmnopqrstuvwxyz"), Chars("ABCDEFGHIJKLMNOPQRSTUVWXYZ")>>

\* String.prototype.toLowerCase
toLowerCase(s) ==
    SubSeq([i \in 1..Len(s) |->
               IF \E k \in 1..26 : Alphabet[2][k] = s[i]
               THEN Alphabet[1][CHOOSE k \in 1..26 : Alphabet[2][k] = s[i]]
               ELSE s[i]], 1, Len(s))

\* \s
WhiteSpace == {" ", "\t", "\n", "\r", "\f"}

\* String.prototype.trim
trim(s) ==
    LET kept == {i \in 1..Len(s) : s[i] \notin WhiteSpace} IN
    IF kept = {} THEN <<>>
    ELSE SubSeq(s, CHOOSE i \in kept : \A j \in kept : i <= j,
                   CHOOSE i \in kept : \A j \in kept : i >= j)

\* [a-z] under the i flag, the subject being in lower case
Letters == {Alphabet[1][k] : k \in 1..26}

\* \w
WordChars ==
    Letters \cup {Alphabet[2][k] : k \in 1..26} \cup {Digits[k] : k \in 1..10}
    \cup {"_"}

\* the regular expression nodes: a literal text
ReLit(str) == [t |-> "lit", s |-> Chars(str)]

\* [set]+ (min = 1) and [set]* (min = 0)
ReRep(set, min) == [t |-> "rep", set |-> set, min |-> min]

\* x1 x2 ...
ReSeq(items) == [t |-> "seq", items |-> items]

\* x1|x2|...
ReAlt(items) == [t |-> "alt", items |-> items]

\* x? (greedy: x is tried first)
ReOpt(x) == ReAlt(<<x, ReSeq(<<>>)>>)

\* capturing group number k
ReCap(k, x) == [t |-> "cap", k |-> k, x |-> x]

\* \b
ReWordB == [t |-> "wordb"]

\* (?!x)
ReNot(x) == [t |-> "not", x |-> x]

\* str1|str2|... of string literals
ReWords(strs) ==
    ReAlt(SubSeq([i \in 1..Len(strs) |-> ReLit(strs[i])], 1, Len(strs)))

\* \d+
ReDigits == ReRep({Digits[k] : k \in 1..10}, 1)

\* \s+
ReWs1 == ReRep(WhiteSpace, 1)

\* \s*
ReWs0 == ReRep(WhiteSpace, 0)

\* the branches that remain of the branches bs after matching node in s;
\* caps[k] is <<from, to + 1>> of group k, <<0, 0>> if it took no part
RECURSIVE ReBranches(_, _, _)
ReBranches(node, bs, s) ==
    LET \* the items lo..hi of a sequence, one after the other
        RECURSIVE SeqBranches(_, _, _)
        SeqBranches(lo, hi, from) ==
            IF from = {} \/ lo > hi THEN from
            ELSE IF lo = hi THEN ReBranches(node.items[lo], from, s)
            ELSE SeqBranches((lo + hi) \div 2 + 1, hi,
                             SeqBranches(lo, (lo + hi) \div 2, from))
        \* the number of characters of s from position pos on that are in
        \* the set of the node
        RunLength(pos) ==
            IF pos > Len(s) THEN 0
            ELSE CHOOSE n \in 0..(Len(s) - pos + 1) :
                     /\ n = Len(s) - pos + 1 \/ s[pos + n] \notin node.set
                     /\ \A j \in 0..(n - 1) : s[pos + j] \in node.set
        \* the branches of b for a run of run characters: it gives back
        \* 0 characters first, then 1, ...
        GiveBack(b, run) ==
            {[b EXCEPT !.pos = @ + run - back, !.key = Append(@, back)] :
                 back \in 0..(run - node.min)}
        IsWordAt(pos) == pos >= 1 /\ pos <= Len(s) /\ s[pos] \in WordChars
    IN
    IF bs = {} THEN {}
    ELSE CASE node.t = "lit" ->
              {[b EXCEPT !.pos = @ + Len(node.s)] :
                  b \in {x \in bs :
                             /\ x.pos + Len(node.s) - 1 <= Len(s)
                             /\ SubSeq(s, x.pos, x.pos + Len(node.s) - 1)
                                = node.s}}
           [] node.t = "rep" ->
              \* greedy: giving back 0 characters of the longest run is the
              \* first choice
              UNION {GiveBack(b, RunLength(b.pos)) : b \in bs}
           [] node.t = "seq" -> SeqBranches(1, Len(node.items), bs)
           [] node.t = "alt" ->
              UNION {ReBranches(node.items[i],
                                {[b EXCEPT !.key = Append(@, i)] : b \in bs}, s) :
                     i \in 1..Len(node.items)}
           [] node.t = "cap" ->
              {[b EXCEPT !.caps[node.k] = <<@[1], b.pos>>] :
                  b \in ReBranches(node.x,
                                   {[x EXCEPT !.caps[node.k] = <<x.pos, 0>>] :
                                       x \in bs}, s)}
           [] node.t = "wordb" ->
              {b \in bs : IsWordAt(b.pos - 1) # IsWordAt(b.pos)}
           [] node.t = "not" ->
              {b \in bs : ReBranches(node.x, {b}, s) = {}}

\* no match
ReFail == [ok |-> FALSE]

\* the leftmost match of re in s at or after position start
ReSearch(re, s, start) ==
    LET \* the branches of bs whose key has the least element i (keys is
        \* the set of these elements)
        LeastAt(bs, i, keys) ==
            {b \in bs : \A other \in keys : b.key[i] <= other}
        \* the branch of bs with the least key, comparing from element i on
        RECURSIVE Least(_, _)
        Least(bs, i) ==
            IF Cardinality(bs) = 1 THEN CHOOSE b \in bs : TRUE
            ELSE Least(LeastAt(bs, i, {b.key[i] : b \in bs}), i + 1)
        Found(b) ==
            [ok |-> TRUE, start |-> b.start, end |-> b.pos, caps |-> b.caps]
        First(bs) == IF bs = {} THEN ReFail ELSE Found(Least(bs, 1))
    IN IF start > Len(s) + 1 THEN ReFail
       ELSE First(ReBranches(re,
                             {[pos |-> i, start |-> i,
                               caps |-> <<<<0, 0>>, <<0, 0>>, <<0, 0>>, <<0, 0>>>>,
                               key |-> <<i>>] : i \in start..(Len(s) + 1)},
                             s))

\* String.prototype.match(re) without the g flag: m.ok, and m.group[k] is the
\* text of group k (group 0 is m.whole), UndefinedStr if it took no part
match(s, re) ==
    LET Group(cap) ==
            IF cap = <<0, 0>> THEN UndefinedStr
            ELSE SubSeq(s, cap[1], cap[2] - 1)
        MatchObject(r) ==
            IF ~r.ok THEN ReFail
            ELSE [ok    |-> TRUE,
                  whole |-> SubSeq(s, r.start, r.end - 1),
                  group |-> <<Group(r.caps[1]), Group(r.caps[2]),
                              Group(r.caps[3]), Group(r.caps[4])>>]
    IN MatchObject(ReSearch(re, toLowerCase(s), 1))

\* RegExp.prototype.test
test(re, s) == ReSearch(re, toLowerCase(s), 1).ok

\* a captured group as a JavaScript condition: undefined and "" are falsy
Truthy(str) == str # UndefinedStr /\ str # <<>>

\* String.prototype.match(re) with the g flag: the matched texts, in order;
\* the search goes on after each match (one further after an empty match)
RECURSIVE matchAll(_, _, _)
matchAll(s, re, start) ==
    LET After(r) ==
            IF ~r.ok THEN <<>>
            ELSE <<SubSeq(s, r.start, r.end - 1)>>
                 \o matchAll(s, re, IF r.end > r.start THEN r.end
                                    ELSE r.end + 1)
    IN After(ReSearch(re, toLowerCase(s), start))

\* String.prototype.replace(re, by) with the g flag, from position start on;
\* by is group 1 of the match ('$1') where group is TRUE
RECURSIVE replaceAll(_, _, _, _, _)
replaceAll(s, re, by, group, start) ==
    LET After(r) ==
            IF ~r.ok THEN SubSeq(s, start, Len(s))
            ELSE SubSeq(s, start, r.start - 1)
                 \o (IF ~group THEN by
                     ELSE IF r.caps[1] = <<0, 0>> THEN <<>>
                     ELSE SubSeq(s, r.caps[1][1], r.caps[1][2] - 1))
                 \o replaceAll(s, re, by, group,
                               IF r.end > r.start THEN r.end ELSE r.end + 1)
    IN After(ReSearch(re, toLowerCase(s), start))

\* String.prototype.startsWith
startsWith(s, str) ==
    Len(s) >= Len(str) /\ SubSeq(s, 1, Len(str)) = Chars(str)

\* Array.prototype.join(sep) of an array of strings
RECURSIVE join(_, _)
join(arr, sep) ==
    IF Len(arr) = 0 THEN <<>>
    ELSE IF Len(arr) = 1 THEN arr[1]
    ELSE arr[1] \o Chars(sep) \o join(Tail(arr), sep)

\* null, and a value that is present
None == <<>>

Some(v) == <<v>>

\* in place of a value: the call threw an Error instead of returning
Thrown == <<"Error", "thrown">>

(***************************************************************************)
(* SemanticNLPEngine                                                       *)
(*                                                                         *)
(* null is None and a value v that is present is Some(v).                  *)
(***************************************************************************)
\* this.wordToNumber, in the order of Object.entries
wordToNumber ==
    << <<"zero", 0>>, <<"one", 1>>, <<"two", 2>>, <<"three", 3>>, <<"four", 4>>,
       <<"five", 5>>, <<"six", 6>>, <<"seven", 7>>, <<"eight", 8>>, <<"nine", 9>>,
       <<"ten", 10>>, <<"eleven", 11>>, <<"twelve", 12>>, <<"thirteen", 13>>,
       <<"fourteen", 14>>, <<"fifteen", 15>>, <<"sixteen", 16>>,
       <<"seventeen", 17>>, <<"eighteen", 18>>, <<"nineteen", 19>>,
       <<"twenty", 20>>, <<"thirty", 30>>, <<"forty", 40>>, <<"fifty", 50>>,
       <<"sixty", 60>>, <<"couple", 2>>, <<"few", 3>>, <<"several", 5>> >>

\* this.weekdayMap of SemanticNLPEngine
EngineWeekdayMap ==
    << <<"sunday", 0>>, <<"sun", 0>>, <<"monday", 1>>, <<"mon", 1>>,
       <<"tuesday", 2>>, <<"tue", 2>>, <<"tues", 2>>, <<"wednesday", 3>>,
       <<"wed", 3>>, <<"thursday", 4>>, <<"thu", 4>>, <<"thur", 4>>,
       <<"thurs", 4>>, <<"friday", 5>>, <<"fri", 5>>, <<"saturday", 6>>,
       <<"sat", 6>> >>

\* this.monthMap of SemanticNLPEngine (MONTH_MAP has the same entries)
EngineMonthMap ==
    << <<"january", 1>>, <<"jan", 1>>, <<"february", 2>>, <<"feb", 2>>,
       <<"march", 3>>, <<"mar", 3>>, <<"april", 4>>, <<"apr", 4>>, <<"may", 5>>,
       <<"june", 6>>, <<"jun", 6>>, <<"july", 7>>, <<"jul", 7>>,
       <<"august", 8>>, <<"aug", 8>>, <<"september", 9>>, <<"sep", 9>>,
       <<"sept", 9>>, <<"october", 10>>, <<"oct", 10>>, <<"november", 11>>,
       <<"nov", 11>>, <<"december", 12>>, <<"dec", 12>> >>

\* map[key] of an object literal: None stands for undefined
Lookup(map, key) ==
    IF \E i \in 1..Len(map) : Chars(map[i][1]) = key
    THEN Some(map[CHOOSE i \in 1..Len(map) : Chars(map[i][1]) = key][2])
    ELSE None

\* \bword\b
ReWholeWord(x) == ReSeq(<<ReWordB, x, ReWordB>>)

\* days?
ReDays == ReSeq(<<ReLit("day"), ReOpt(ReLit("s"))>>)

\* the replacements are made in the order of the source: one per entry of
\* wordToNumber, then the patterns it standardizes; by is the replacement,
\* which is group 1 of the match where group is TRUE
normalizeInput(text) ==
    LET normalizations ==
            SubSeq([i \in 1..Len(wordToNumber) |->
                       [regex |-> ReWholeWord(ReLit(wordToNumber[i][1])),
                        by    |-> ToStr(wordToNumber[i][2]),
                        group |-> FALSE]], 1, Len(wordToNumber))
            \o << [regex |-> ReSeq(<<ReWordB, ReLit("business"), ReWs1, ReDays,
                                     ReWordB>>),
                   by |-> Chars("weekdays"), group |-> FALSE],
                  [regex |-> ReSeq(<<ReWordB, ReLit("work"), ReWs1, ReDays,
                                     ReWordB>>),
                   by |-> Chars("weekdays"), group |-> FALSE],
                  [regex |-> ReSeq(<<ReWordB, ReLit("week"), ReWs1, ReDays,
                                     ReWordB>>),
                   by |-> Chars("weekdays"), group |-> FALSE],
                  [regex |-> ReWholeWord(ReLit("mon-fri")),
                   by |-> Chars("monday to friday"), group |-> FALSE],
                  [regex |-> ReWholeWord(ReLit("daily")),
                   by |-> Chars("every day"), group |-> FALSE],
                  [regex |-> ReWholeWord(ReLit("hourly")),
                   by |-> Chars("every hour"), group |-> FALSE],
                  [regex |-> ReSeq(<<ReWordB, ReLit("every"), ReWs1,
                                     ReLit("other"), ReWordB>>),
                   by |-> Chars("every 2"), group |-> FALSE],
                  \* /\bof\s+(minute|minutes|hour|hours|day|days|week|weeks|
                  \*  month|months)/gi
                  [regex |-> ReSeq(<<ReWordB, ReLit("of"), ReWs1,
                                     ReCap(1, ReWords(<<"minute", "minutes",
                                                        "hour", "hours", "day",
                                                        "days", "week", "weeks",
                                                        "month", "months">>))>>),
                   by |-> <<>>, group |-> TRUE] >>
        \* the replacements lo..hi, one after the other
        RECURSIVE normalize(_, _, _)
        normalize(normalized, lo, hi) ==
            IF Len(normalized) = 0 \/ lo > hi THEN normalized
            ELSE IF lo = hi
            THEN replaceAll(normalized, normalizations[lo].regex,
                            normalizations[lo].by, normalizations[lo].group, 1)
            ELSE normalize(normalize(normalized, lo, (lo + hi) \div 2),
                           (lo + hi) \div 2 + 1, hi)
    IN normalize(trim(toLowerCase(text)), 1, Len(normalizations))

extractFrequency(text) ==
    LET \* /every\s+(\d+)\s+(minute|minutes|min|mins|hour|hours|hr|hrs|day|
        \*  days|week|weeks|month|months)/i
        intervalPattern ==
            ReSeq(<<ReLit("every"), ReWs1, ReCap(1, ReDigits), ReWs1,
                    ReCap(2, ReWords(<<"minute", "minutes", "min", "mins",
                                       "hour", "hours", "hr", "hrs", "day",
                                       "days", "week", "weeks", "month",
                                       "months">>))>>)
        \* (?:a|an|per|every)\s+(day|week|month|year)
        RePerUnit(k) ==
            ReSeq(<<ReWords(<<"a", "an", "per", "every">>), ReWs1,
                    ReCap(k, ReWords(<<"day", "week", "month", "year">>))>>)
        \* /(\d+)\s+times?\s+(?:a|an|per|every)\s+(day|week|month|year)/i
        timesPattern ==
            ReSeq(<<ReCap(1, ReDigits), ReWs1, ReLit("time"), ReOpt(ReLit("s")),
                    ReWs1, RePerUnit(2)>>)
        \* /\bonce\s+(?:a|an|per|every)\s+(day|week|month|year)/i
        oncePattern == ReSeq(<<ReWordB, ReLit("once"), ReWs1, RePerUnit(1)>>)
        \* /\btwice\s+(?:a|an|per|every)\s+(day|week|month|year)/i
        twicePattern == ReSeq(<<ReWordB, ReLit("twice"), ReWs1, RePerUnit(1)>>)
        \* unit.replace(/s$/, '')
        dropFinalS(unit) ==
            IF Len(unit) > 0 /\ unit[Len(unit)] = "s"
            THEN SubSeq(unit, 1, Len(unit) - 1) ELSE unit
        intervalMatch == match(text, intervalPattern)
        timesMatch    == match(text, timesPattern)
    IN IF intervalMatch.ok THEN
           LET unit == dropFinalS(toLowerCase(intervalMatch.group[2])) IN
           Some([type  |-> "interval",
                 value |-> ParseInt(intervalMatch.group[1]),
                 unit  |-> IF startsWith(unit, "min") THEN Chars("minute")
                           ELSE IF startsWith(unit, "h") THEN Chars("hour")
                           ELSE IF startsWith(unit, "d") THEN Chars("day")
                           ELSE IF startsWith(unit, "w") THEN Chars("week")
                           ELSE Chars("month")])
       ELSE IF timesMatch.ok THEN
           Some([type  |-> "times_per",
                 value |-> ParseInt(timesMatch.group[1]),
                 unit  |-> toLowerCase(timesMatch.group[2])])
       ELSE IF test(oncePattern, text) THEN
           Some([type |-> "times_per", value |-> 1,
                 unit |-> toLowerCase(match(text, oncePattern).group[1])])
       ELSE IF test(twicePattern, text) THEN
           Some([type |-> "times_per", value |-> 2,
                 unit |-> toLowerCase(match(text, twicePattern).group[1])])
       ELSE IF test(ReWholeWord(ReLit("once")), text) THEN
           Some([type |-> "times_per", value |-> 1, unit |-> Chars("day")])
       ELSE IF test(ReWholeWord(ReLit("twice")), text) THEN
           Some([type |-> "times_per", value |-> 2, unit |-> Chars("day")])
       ELSE None

\* (am|pm)
ReAmPm == ReWords(<<"am", "pm">>)

\* hour after the am/pm adjustment; period may be undefined
applyPeriod(hour, period) ==
    IF period = UndefinedStr THEN hour
    ELSE IF toLowerCase(period) = Chars("pm") /\ hour # 12 THEN hour + 12
    ELSE IF toLowerCase(period) = Chars("am") /\ hour = 12 THEN 0
    ELSE hour

\* chrono is what chrono.parse(text) yields: None (no result, or it threw) or
\* Some([hour, minute]) of chronoResults[0].start.date()
extractTime(text, chrono) ==
    LET timePatterns ==
            << \* /(\d+):(\d+)\s*(am|pm)/i
               ReSeq(<<ReCap(1, ReDigits), ReLit(":"), ReCap(2, ReDigits),
                       ReWs0, ReCap(3, ReAmPm)>>),
               \* /(\d+)\s*(am|pm)/i
               ReSeq(<<ReCap(1, ReDigits), ReWs0, ReCap(2, ReAmPm)>>),
               \* /at\s+(\d+):(\d+)\s*(am|pm)?/i
               ReSeq(<<ReLit("at"), ReWs1, ReCap(1, ReDigits), ReLit(":"),
                       ReCap(2, ReDigits), ReWs0, ReOpt(ReCap(3, ReAmPm))>>),
               \* /at\s+(\d+)\s*(am|pm)?/i
               ReSeq(<<ReLit("at"), ReWs1, ReCap(1, ReDigits), ReWs0,
                       ReOpt(ReCap(2, ReAmPm))>>) >>
        \* the body of the loop for a pattern that matched
        timeOf(m) ==
            IF Truthy(m.group[2]) /\ ParseInt(m.group[2]) # NaN
            THEN [hour   |-> applyPeriod(ParseInt(m.group[1]), m.group[3]),
                  minute |-> ParseInt(m.group[2]), source |-> "regex"]
            ELSE [hour   |-> applyPeriod(ParseInt(m.group[1]), m.group[2]),
                  minute |-> 0, source |-> "regex"]
        \* /\bat\b|\btime\b|\bo'clock\b|\bclock\b/i
        chronoGuard ==
            ReAlt(<<ReWholeWord(ReLit("at")), ReWholeWord(ReLit("time")),
                    ReWholeWord(ReLit("o'clock")), ReWholeWord(ReLit("clock"))>>)
        matched(m, rest) == IF m.ok THEN Some(timeOf(m)) ELSE rest
        \* the loop over timePatterns from pattern i on, then chrono
        RECURSIVE from(_)
        from(i) ==
            IF i > Len(timePatterns) THEN
                IF test(chronoGuard, text) /\ chrono # None
                THEN Some([hour |-> chrono[1].hour, minute |-> chrono[1].minute,
                           source |-> "chrono"])
                ELSE None
            ELSE matched(match(text, timePatterns[i]), from(i + 1))
    IN IF test(ReWholeWord(ReLit("midnight")), text)
       THEN Some([hour |-> 0, minute |-> 0, source |-> "keyword"])
       ELSE IF test(ReWholeWord(ReLit("noon")), text)
       THEN Some([hour |-> 12, minute |-> 0, source |-> "keyword"])
       ELSE from(1)

\* (monday|tuesday|wednesday|thursday|friday|saturday|sunday|mon|tue|wed|thu|
\*  fri|sat|sun)
ReDayNames ==
    ReWords(<<"monday", "tuesday", "wednesday", "thursday", "friday",
              "saturday", "sunday", "mon", "tue", "wed", "thu", "fri", "sat",
              "sun">>)

\* (january|...|december|jan|feb|mar|apr|may|jun|jul|aug|sep|sept|oct|nov|dec)
ReMonthNames ==
    ReWords(<<"january", "february", "march", "april", "may", "june", "july",
              "august", "september", "october", "november", "december", "jan",
              "feb", "mar", "apr", "may", "jun", "jul", "aug", "sep", "sept",
              "oct", "nov", "dec">>)

\* \s+(?:to|through|-)\s+
ReTo == ReSeq(<<ReWs1, ReWords(<<"to", "through", "-">>), ReWs1>>)

\* arr.sort((a, b) => a - b) of an array of integers
RECURSIVE sortNumbers(_)
sortNumbers(arr) ==
    LET RECURSIVE Insert(_, _)
        Insert(n, sorted) ==
            IF sorted = <<>> THEN <<n>>
            ELSE IF n < Head(sorted) THEN <<n>> \o sorted
            ELSE <<Head(sorted)>> \o Insert(n, Tail(sorted))
    IN IF arr = <<>> THEN <<>>
       ELSE Insert(arr[Len(arr)], sortNumbers(SubSeq(arr, 1, Len(arr) - 1)))

includes(arr, v) == \E i \in 1..Len(arr) : arr[i] = v

\* the loop "for (const match of matches)" of extractWeekdays and
\* extractMonths: the numbers of the names, each once, in order of appearance
RECURSIVE namedNumbers(_, _, _)
namedNumbers(matches, map, acc) ==
    IF matches = <<>> THEN acc
    ELSE LET num == Lookup(map, toLowerCase(Head(matches))) IN
         namedNumbers(Tail(matches), map,
                      IF num # None /\ ~includes(acc, num[1])
                      THEN Append(acc, num[1]) ELSE acc)

\* wrapRange without the wrap-around: the days between end and start
wrapRange_NoWrap(startN, endN, first, last) ==
    LET Range(from, upto) ==
            SubSeq([i \in 1..(upto - from + 1) |-> from + i - 1], 1,
                   upto - from + 1)
    IN IF startN <= endN THEN Range(startN, endN)
       ELSE Range(endN, startN)

\* the range of extractWeekdays (last = 6, first = 0) and of extractMonths
\* (last = 12, first = 1), wrapping around when start > end
wrapRange(startN, endN, first, last) ==
    LET Range(from, upto) ==
            SubSeq([i \in 1..(upto - from + 1) |-> from + i - 1], 1,
                   upto - from + 1)
    IN IF startN <= endN THEN Range(startN, endN)
       ELSE Range(startN, last) \o Range(first, endN)

extractWeekdays(text) ==
    LET rangeMatch == match(text, ReSeq(<<ReCap(1, ReDayNames), ReTo,
                                          ReCap(2, ReDayNames)>>))
        startDay == Lookup(EngineWeekdayMap, toLowerCase(rangeMatch.group[1]))
        endDay   == Lookup(EngineWeekdayMap, toLowerCase(rangeMatch.group[2]))
        weekdays == namedNumbers(matchAll(text, ReWholeWord(ReDayNames), 1),
                                 EngineWeekdayMap, <<>>)
    IN IF test(ReSeq(<<ReWordB, ReLit("weekday"), ReOpt(ReLit("s")), ReWordB>>),
               text)
       THEN Some(<<1, 2, 3, 4, 5>>)
       ELSE IF test(ReSeq(<<ReWordB, ReLit("weekend"), ReOpt(ReLit("s")),
                            ReWordB>>), text)
       THEN Some(<<0, 6>>)
       ELSE IF rangeMatch.ok /\ startDay # None /\ endDay # None
       THEN Some(sortNumbers(wrapRange(startDay[1], endDay[1], 0, 6)))
       ELSE IF Len(weekdays) > 0 THEN Some(sortNumbers(weekdays))
       ELSE None

extractMonths(text) ==
    LET rangeMatch == match(text, ReSeq(<<ReCap(1, ReMonthNames), ReTo,
                                          ReCap(2, ReMonthNames)>>))
        startMonth == Lookup(EngineMonthMap, toLowerCase(rangeMatch.group[1]))
        endMonth   == Lookup(EngineMonthMap, toLowerCase(rangeMatch.group[2]))
        months == namedNumbers(matchAll(text, ReWholeWord(ReMonthNames), 1),
                               EngineMonthMap, <<>>)
    IN IF rangeMatch.ok /\ startMonth # None /\ endMonth # None
       THEN Some(sortNumbers(wrapRange(startMonth[1], endMonth[1], 1, 12)))
       ELSE IF Len(months) > 0 THEN Some(sortNumbers(months))
       ELSE None

\* (?:st|nd|rd|th)
ReOrdinalSuffix == ReWords(<<"st", "nd", "rd", "th">>)

extractDayOfMonth(text) ==
    LET \* \s+of\s+(?:the\s+)?(?:every\s+)?month\b
        ReOfMonth ==
            ReSeq(<<ReWs1, ReLit("of"), ReWs1,
                    ReOpt(ReSeq(<<ReLit("the"), ReWs1>>)),
                    ReOpt(ReSeq(<<ReLit("every"), ReWs1>>)), ReLit("month"),
                    ReWordB>>)
        patterns0 ==
            << \* /(?:on\s+(?:the\s+)?)?(\d+)(?:st|nd|rd|th)\s+(?:day|of)/i
               ReSeq(<<ReOpt(ReSeq(<<ReLit("on"), ReWs1,
                                     ReOpt(ReSeq(<<ReLit("the"), ReWs1>>))>>)),
                       ReCap(1, ReDigits), ReOrdinalSuffix, ReWs1,
                       ReWords(<<"day", "of">>)>>),
               \* /(?:day\s+)?(\d+)(?:st|nd|rd|th)/i
               ReSeq(<<ReOpt(ReSeq(<<ReLit("day"), ReWs1>>)), ReCap(1, ReDigits),
                       ReOrdinalSuffix>>),
               \* /on\s+(?:the\s+)?(\d+)/i
               ReSeq(<<ReLit("on"), ReWs1, ReOpt(ReSeq(<<ReLit("the"), ReWs1>>)),
                       ReCap(1, ReDigits)>>) >>
        \* the body of the loop for the match m of a pattern
        dayOf(m, rest) ==
            IF m.ok /\ JsGe(ParseInt(m.group[1]), 1)
                    /\ JsLe(ParseInt(m.group[1]), 31)
            THEN Some(ParseInt(m.group[1])) ELSE rest
        \* the loop over the patterns, from pattern i on
        RECURSIVE from(_)
        from(i) ==
            IF i > Len(patterns0) THEN None
            ELSE dayOf(match(text, patterns0[i]), from(i + 1))
    IN IF test(ReSeq(<<ReWordB,
                       ReAlt(<<ReLit("start"), ReLit("beginning"),
                               ReSeq(<<ReLit("first"), ReWs1, ReLit("day")>>)>>),
                       ReOfMonth>>), text)
       THEN Some(1)
       ELSE IF test(ReSeq(<<ReWordB,
                            ReAlt(<<ReLit("end"),
                                    ReSeq(<<ReLit("last"), ReWs1,
                                            ReLit("day")>>)>>),
                            ReOfMonth>>), text)
       THEN Some(31)
       ELSE from(1)

extractOrdinal(text) ==
    LET \* ordinalMap, in the order of Object.entries
        ordinalMap ==
            << <<"first", 1>>, <<"1st", 1>>, <<"second", 2>>, <<"2nd", 2>>,
               <<"third", 3>>, <<"3rd", 3>>, <<"fourth", 4>>, <<"4th", 4>>,
               <<"fifth", 5>>, <<"5th", 5>>, <<"last", -1>> >>
        \* \b(?:first|second|third|fourth|fifth|last)\s+
        ReOrdinalWord ==
            ReSeq(<<ReWordB,
                    ReWords(<<"first", "second", "third", "fourth", "fifth",
                              "last">>),
                    ReWs1>>)
        \* the loop over ordinalMap, from entry i on
        RECURSIVE from(_)
        from(i) ==
            IF i > Len(ordinalMap) THEN None
            ELSE IF test(ReWholeWord(ReLit(ordinalMap[i][1])), text)
                    /\ test(ReSeq(<<ReOrdinalWord,
                                    ReWords(<<"monday", "tuesday", "wednesday",
                                              "thursday", "friday", "saturday",
                                              "sunday">>)>>), text)
            THEN Some([value |-> ordinalMap[i][2], type |-> "weekday"])
            ELSE IF test(ReWholeWord(ReLit(ordinalMap[i][1])), text)
                    /\ test(ReSeq(<<ReOrdinalWord, ReWords(<<"day", "week">>)>>),
                            text)
            THEN Some([value |-> ordinalMap[i][2], type |-> "day"])
            ELSE from(i + 1)
    IN from(1)

extractRecurring(text) ==
    LET \* \bevery\s+unit\b
        ReEvery(unit) ==
            ReSeq(<<ReWordB, ReLit("every"), ReWs1, ReLit(unit), ReWordB>>)
    IN IF test(ReAlt(<<ReWholeWord(ReLit("yearly")), ReEvery("year"),
                       ReWholeWord(ReLit("annually"))>>), text)
       THEN Some("yearly")
       ELSE IF test(ReAlt(<<ReWholeWord(ReLit("monthly")), ReEvery("month")>>),
                    text)
       THEN Some("monthly")
       ELSE IF test(ReAlt(<<ReWholeWord(ReLit("weekly")), ReEvery("week")>>),
                    text)
       THEN Some("weekly")
       ELSE IF test(ReAlt(<<ReWholeWord(ReLit("daily")), ReEvery("day")>>), text)
       THEN Some("daily")
       ELSE IF test(ReAlt(<<ReWholeWord(ReLit("quarterly")),
                            ReEvery("quarter")>>), text)
       THEN Some("quarterly")
       ELSE None

\* a number as a JavaScript condition: null, 0 and NaN are falsy
TruthyNumber(opt) == opt # None /\ opt[1] # 0 /\ opt[1] # NaN

validateResult(result) ==
    \/ result.frequency # None
    \/ result.time # None
    \/ result.weekdays # None
    \/ result.months # None
    \/ TruthyNumber(result.dayOfMonth)
    \/ result.recurring # None

\* SemanticNLPEngine.parse with a default time of 9:00 instead of midnight
SemanticNLPEngineParse_NineOClock(text, chrono) ==
    LET \* the result object, with the default time of midnight where no time
        \* but other scheduling information was found
        resultOf(normalized, frequency, time, weekdays, months, dayOfMonth,
                 ordinal, recurring) ==
            [frequency  |-> frequency,
             time       |->
                 IF time = None
                    /\ (weekdays # None \/ months # None
                        \/ TruthyNumber(dayOfMonth) \/ recurring # None)
                 THEN Some([hour |-> 9, minute |-> 0, source |-> "default"])
                 ELSE time,
             weekdays   |-> weekdays,
             months     |-> months,
             dayOfMonth |-> dayOfMonth,
             ordinal    |-> ordinal,
             recurring  |-> recurring,
             normalizedText |-> normalized]
        validated(result) == IF validateResult(result) THEN Some(result) ELSE None
        parseNormalized(normalized) ==
            validated(resultOf(normalized,
                               extractFrequency(normalized),
                               extractTime(normalized, chrono),
                               extractWeekdays(normalized),
                               extractMonths(normalized),
                               extractDayOfMonth(normalized),
                               extractOrdinal(normalized),
                               extractRecurring(normalized)))
    IN IF text = <<>> THEN None
       ELSE IF chrono = Thrown THEN Thrown
       ELSE parseNormalized(normalizeInput(text))

\* SemanticNLPEngine.parse of a string: Some(result) or None (null), or
\* Thrown where nlp(normalized) of the compromise library throws (chrono is
\* Thrown then)
SemanticNLPEngineParse(text, chrono) ==
    LET \* the result object, with the default time of midnight where no time
        \* but other scheduling information was found
        resultOf(normalized, frequency, time, weekdays, months, dayOfMonth,
                 ordinal, recurring) ==
            [frequency  |-> frequency,
             time       |->
                 IF time = None
                    /\ (weekdays # None \/ months # None
                        \/ TruthyNumber(dayOfMonth) \/ recurring # None)
                 THEN Some([hour |-> 0, minute |-> 0, source |-> "default"])
                 ELSE time,
             weekdays   |-> weekdays,
             months     |-> months,
             dayOfMonth |-> dayOfMonth,
             ordinal    |-> ordinal,
             recurring  |-> recurring,
             normalizedText |-> normalized]
        validated(result) == IF validateResult(result) THEN Some(result) ELSE None
        parseNormalized(normalized) ==
            validated(resultOf(normalized,
                               extractFrequency(normalized),
                               extractTime(normalized, chrono),
                               extractWeekdays(normalized),
                               extractMonths(normalized),
                               extractDayOfMonth(normalized),
                               extractOrdinal(normalized),
                               extractRecurring(normalized)))
    IN IF text = <<>> THEN None
       ELSE IF chrono = Thrown THEN Thrown
       ELSE parseNormalized(normalizeInput(text))

(***************************************************************************)
(* NLPToCronConverter                                                      *)
(***************************************************************************)
\* CONFIG of constants.js
DEFAULT_WEEKDAY_HOUR == 9

DEFAULT_WEEKEND_HOUR == 10

DEFAULT_MINUTE == 0

DEFAULT_HOUR == 0

\* Array.prototype.join(',') of an array of integers
joinNumbers(arr) ==
    join(SubSeq([i \in 1..Len(arr) |-> ToStr(arr[i])], 1, Len(arr)), ",")

\* the strings of a template literal, joined by single blanks
fields(f1, f2, f3, f4, f5) == join(<<f1, f2, f3, f4, f5>>, " ")

\* formatWeekdays with two consecutive days written as a range
formatWeekdays_RangeOfTwo(weekdays) ==
    IF weekdays = None \/ Len(weekdays[1]) = 0 THEN Chars("*")
    ELSE IF Len(weekdays[1]) = 1 THEN ToStr(weekdays[1][1])
    ELSE LET sorted == sortNumbers(weekdays[1])
             isConsecutive ==
                 \A i \in 2..Len(sorted) : sorted[i] = sorted[i - 1] + 1
         IN
         IF isConsecutive /\ Len(sorted) >= 2
         THEN ToStr(sorted[1]) \o Chars("-") \o ToStr(sorted[Len(sorted)])
         ELSE joinNumbers(sorted)

\* formatWeekdays writing every set of 3 or more days as a range
formatWeekdays_AlwaysRange(weekdays) ==
    IF weekdays = None \/ Len(weekdays[1]) = 0 THEN Chars("*")
    ELSE IF Len(weekdays[1]) = 1 THEN ToStr(weekdays[1][1])
    ELSE LET sorted == sortNumbers(weekdays[1]) IN
         IF Len(sorted) > 2
         THEN ToStr(sorted[1]) \o Chars("-") \o ToStr(sorted[Len(sorted)])
         ELSE joinNumbers(sorted)

\* weekdays is None (null) or Some(array of day numbers)
formatWeekdays(weekdays) ==
    IF weekdays = None \/ Len(weekdays[1]) = 0 THEN Chars("*")
    ELSE IF Len(weekdays[1]) = 1 THEN ToStr(weekdays[1][1])
    ELSE LET sorted == sortNumbers(weekdays[1])
             \* the loop: sorted[i] = sorted[i-1] + 1 for every i
             isConsecutive ==
                 \A i \in 2..Len(sorted) : sorted[i] = sorted[i - 1] + 1
         IN
         IF isConsecutive /\ Len(sorted) > 2
         THEN ToStr(sorted[1]) \o Chars("-") \o ToStr(sorted[Len(sorted)])
         ELSE joinNumbers(sorted)

\* result.time || { hour, minute }
timeOr(result, hour, minute) ==
    IF result.time # None THEN result.time[1]
    ELSE [hour |-> hour, minute |-> minute]

\* result.dayOfMonth || 1
dayOr1(result) ==
    IF TruthyNumber(result.dayOfMonth) THEN result.dayOfMonth[1] ELSE 1

buildComplexSchedule(result) ==
    fields(ToStr(result.time[1].minute), ToStr(result.time[1].hour), Chars("*"),
           joinNumbers(result.months[1]), formatWeekdays(result.weekdays))

\* buildIntervalSchedule with every interval of weeks pinned to Monday
buildIntervalSchedule_AlwaysMonday(result) ==
    LET freq == result.frequency[1]
        step == Chars("*/") \o ToStr(freq.value)
    IN CASE freq.unit = Chars("minute") ->
              Some(fields(step, Chars("*"), Chars("*"), Chars("*"), Chars("*")))
         [] freq.unit = Chars("hour") ->
              Some(fields(ToStr(IF result.time # None
                                THEN result.time[1].minute ELSE 0),
                          step, Chars("*"), Chars("*"), Chars("*")))
         [] freq.unit = Chars("day") ->
              LET time == timeOr(result, 0, 0) IN
              Some(fields(ToStr(time.minute), ToStr(time.hour), step,
                          Chars("*"), Chars("*")))
         [] freq.unit = Chars("week") ->
              LET weekTime == timeOr(result, 9, 0)
                  weekday  == 1
              IN Some(fields(ToStr(weekTime.minute), ToStr(weekTime.hour),
                             Chars("*"), Chars("*"), ToStr(weekday)))
         [] freq.unit = Chars("month") ->
              LET monthTime == timeOr(result, 0, 0) IN
              Some(fields(ToStr(monthTime.minute), ToStr(monthTime.hour),
                          ToStr(dayOr1(result)), step, Chars("*")))
         [] OTHER -> None

buildIntervalSchedule(result) ==
    LET freq == result.frequency[1]
        step == Chars("*/") \o ToStr(freq.value)
    IN CASE freq.unit = Chars("minute") ->
              Some(fields(step, Chars("*"), Chars("*"), Chars("*"), Chars("*")))
         [] freq.unit = Chars("hour") ->
              Some(fields(ToStr(IF result.time # None
                                THEN result.time[1].minute ELSE 0),
                          step, Chars("*"), Chars("*"), Chars("*")))
         [] freq.unit = Chars("day") ->
              LET time == timeOr(result, 0, 0) IN
              Some(fields(ToStr(time.minute), ToStr(time.hour), step,
                          Chars("*"), Chars("*")))
         [] freq.unit = Chars("week") ->
              LET weekTime == timeOr(result, 9, 0)
                  weekday  == IF result.weekdays # None
                              THEN result.weekdays[1][1] ELSE 1
              IN Some(fields(ToStr(weekTime.minute), ToStr(weekTime.hour),
                             Chars("*"), Chars("*"), ToStr(weekday)))
         [] freq.unit = Chars("month") ->
              LET monthTime == timeOr(result, 0, 0) IN
              Some(fields(ToStr(monthTime.minute), ToStr(monthTime.hour),
                          ToStr(dayOr1(result)), step, Chars("*")))
         [] OTHER -> None

buildTimesPerSchedule(result) ==
    LET freq == result.frequency[1]
        time == timeOr(result, 9, 0)
        minute == ToStr(time.minute)
        hour == ToStr(time.hour)
        \* `${Math.floor(24 / value)}`: 24 / 0 is Infinity
        floor24Over(value) ==
            IF value = 0 THEN Chars("Infinity") ELSE ToStr(24 \div value)
    IN CASE freq.unit = Chars("day") ->
              IF freq.value = 2
              THEN Some(fields(minute,
                               hour \o Chars(",") \o ToStr(time.hour + 8),
                               Chars("*"), Chars("*"), Chars("*")))
              ELSE IF freq.value = 3
              THEN Some(fields(minute,
                               hour \o Chars(",") \o ToStr(time.hour + 4)
                                    \o Chars(",") \o ToStr(time.hour + 8),
                               Chars("*"), Chars("*"), Chars("*")))
              ELSE Some(fields(minute, Chars("*/") \o floor24Over(freq.value),
                               Chars("*"), Chars("*"), Chars("*")))
         [] freq.unit = Chars("week") ->
              IF freq.value = 2
              THEN Some(fields(minute, hour, Chars("*"), Chars("*"),
                               Chars("1,4")))
              ELSE IF freq.value = 3
              THEN Some(fields(minute, hour, Chars("*"), Chars("*"),
                               Chars("1,3,5")))
              ELSE None
         [] freq.unit = Chars("month") ->
              IF freq.value = 2
              THEN Some(fields(minute, hour, Chars("1,15"), Chars("*"),
                               Chars("*")))
              ELSE None
         [] OTHER -> None

buildWeeklySchedule(result) ==
    fields(ToStr(result.time[1].minute), ToStr(result.time[1].hour), Chars("*"),
           Chars("*"), formatWeekdays(result.weekdays))

buildMonthlySchedule(result) ==
    fields(ToStr(result.time[1].minute), ToStr(result.time[1].hour),
           ToStr(result.dayOfMonth[1]),
           IF result.months # None THEN joinNumbers(result.months[1])
           ELSE Chars("*"),
           Chars("*"))

buildDailySchedule(result) ==
    fields(ToStr(result.time[1].minute), ToStr(result.time[1].hour), Chars("*"),
           Chars("*"),
           IF result.weekdays # None THEN formatWeekdays(result.weekdays)
           ELSE Chars("*"))

buildYearlySchedule(result) ==
    LET time == timeOr(result, 0, 0) IN
    fields(ToStr(time.minute), ToStr(time.hour), ToStr(dayOr1(result)),
           ToStr(IF result.months # None THEN result.months[1][1] ELSE 1),
           Chars("*"))

buildQuarterlySchedule(result) ==
    LET time == timeOr(result, 0, 0) IN
    fields(ToStr(time.minute), ToStr(time.hour), ToStr(dayOr1(result)),
           Chars("*/3"), Chars("*"))

buildOrdinalSchedule(result) ==
    LET time == timeOr(result, 9, 0) IN
    fields(ToStr(time.minute), ToStr(time.hour), Chars("1-7"), Chars("*"),
           ToStr(result.weekdays[1][1]))

buildSimpleTimeSchedule(result) ==
    fields(ToStr(result.time[1].minute), ToStr(result.time[1].hour), Chars("*"),
           Chars("*"), Chars("*"))

buildSimpleWeekdaySchedule(result) ==
    fields(ToStr(IF DEFAULT_MINUTE # 0 THEN DEFAULT_MINUTE ELSE 0),
           ToStr(IF DEFAULT_WEEKDAY_HOUR # 0 THEN DEFAULT_WEEKDAY_HOUR ELSE 9),
           Chars("*"), Chars("*"), formatWeekdays(result.weekdays))

\* convert with the monthly rule tested before the weekly rule
convert_MonthlyBeforeWeekly(nlpResult) ==
    IF nlpResult = None THEN None
    ELSE LET r == nlpResult[1] IN
         IF r.weekdays # None /\ r.time # None /\ r.months # None
         THEN Some(buildComplexSchedule(r))
         ELSE IF r.frequency # None /\ r.frequency[1].type = "interval"
         THEN buildIntervalSchedule(r)
         ELSE IF r.frequency # None /\ r.frequency[1].type = "times_per"
         THEN buildTimesPerSchedule(r)
         ELSE IF TruthyNumber(r.dayOfMonth) /\ r.time # None
         THEN Some(buildMonthlySchedule(r))
         ELSE IF r.weekdays # None /\ r.time # None
         THEN Some(buildWeeklySchedule(r))
         ELSE IF r.time # None /\ r.recurring = Some("daily")
         THEN Some(buildDailySchedule(r))
         ELSE IF r.recurring = Some("yearly") /\ r.months # None
         THEN Some(buildYearlySchedule(r))
         ELSE IF r.recurring = Some("quarterly")
         THEN Some(buildQuarterlySchedule(r))
         ELSE IF r.ordinal # None /\ r.weekdays # None
         THEN Some(buildOrdinalSchedule(r))
         ELSE IF r.time # None
         THEN Some(buildSimpleTimeSchedule(r))
         ELSE IF r.weekdays # None
         THEN Some(buildSimpleWeekdaySchedule(r))
         ELSE None

\* convert going on to the later rules when buildTimesPerSchedule yields null
convert_FallThrough(nlpResult) ==
    IF nlpResult = None THEN None
    ELSE LET r == nlpResult[1]
             laterRules ==
                 IF r.weekdays # None /\ r.time # None
                 THEN Some(buildWeeklySchedule(r))
                 ELSE IF TruthyNumber(r.dayOfMonth) /\ r.time # None
                 THEN Some(buildMonthlySchedule(r))
                 ELSE IF r.time # None /\ r.recurring = Some("daily")
                 THEN Some(buildDailySchedule(r))
                 ELSE IF r.recurring = Some("yearly") /\ r.months # None
                 THEN Some(buildYearlySchedule(r))
                 ELSE IF r.recurring = Some("quarterly")
                 THEN Some(buildQuarterlySchedule(r))
                 ELSE IF r.ordinal # None /\ r.weekdays # None
                 THEN Some(buildOrdinalSchedule(r))
                 ELSE IF r.time # None
                 THEN Some(buildSimpleTimeSchedule(r))
                 ELSE IF r.weekdays # None
                 THEN Some(buildSimpleWeekdaySchedule(r))
                 ELSE None
         IN
         IF r.weekdays # None /\ r.time # None /\ r.months # None
         THEN Some(buildComplexSchedule(r))
         ELSE IF r.frequency # None /\ r.frequency[1].type = "interval"
         THEN buildIntervalSchedule(r)
         ELSE IF r.frequency # None /\ r.frequency[1].type = "times_per"
         THEN IF buildTimesPerSchedule(r) = None THEN laterRules
              ELSE buildTimesPerSchedule(r)
         ELSE laterRules

\* NLPToCronConverter.convert: Some(cron expression) or None (null);
\* nlpResult is None (null) or Some(result of SemanticNLPEngine.parse)
convert(nlpResult) ==
    IF nlpResult = None THEN None
    ELSE LET r == nlpResult[1] IN
         IF r.weekdays # None /\ r.time # None /\ r.months # None
         THEN Some(buildComplexSchedule(r))
         ELSE IF r.frequency # None /\ r.frequency[1].type = "interval"
         THEN buildIntervalSchedule(r)
         ELSE IF r.frequency # None /\ r.frequency[1].type = "times_per"
         THEN buildTimesPerSchedule(r)
         ELSE IF r.weekdays # None /\ r.time # None
         THEN Some(buildWeeklySchedule(r))
         ELSE IF TruthyNumber(r.dayOfMonth) /\ r.time # None
         THEN Some(buildMonthlySchedule(r))
         ELSE IF r.time # None /\ r.recurring = Some("daily")
         THEN Some(buildDailySchedule(r))
         ELSE IF r.recurring = Some("yearly") /\ r.months # None
         THEN Some(buildYearlySchedule(r))
         ELSE IF r.recurring = Some("quarterly")
         THEN Some(buildQuarterlySchedule(r))
         ELSE IF r.ordinal # None /\ r.weekdays # None
         THEN Some(buildOrdinalSchedule(r))
         ELSE IF r.time # None
         THEN Some(buildSimpleTimeSchedule(r))
         ELSE IF r.weekdays # None
         THEN Some(buildSimpleWeekdaySchedule(r))
         ELSE None

(***************************************************************************)
(* NaturalLanguageParser                                                   *)
(***************************************************************************)
\* WEEKDAY_MAP of constants.js, in the order of Object.entries; the values
\* are written as strings ('weekday' and 'weekend' are strings in the source)
WEEKDAY_MAP ==
    << <<"sunday", "0">>, <<"sun", "0">>, <<"monday", "1">>, <<"mon", "1">>,
       <<"tuesday", "2">>, <<"tue", "2">>, <<"tues", "2">>,
       <<"wednesday", "3">>, <<"wed", "3">>, <<"thursday", "4">>,
       <<"thu", "4">>, <<"thur", "4">>, <<"thurs", "4">>, <<"friday", "5">>,
       <<"fri", "5">>, <<"saturday", "6">>, <<"sat", "6">>,
       <<"weekday", "weekday">>, <<"weekdays", "weekday">>,
       <<"weekend", "weekend">>, <<"weekends", "weekend">> >>

parseWeekdays(text) ==
    LET \* days.sort((a, b) => a - b): a is moved in front of b only when
        \* a - b < 0; a - b is NaN when a or b is 'weekday' or 'weekend', and
        \* the place of such an element is left to the implementation (here it
        \* keeps its place)
        RECURSIVE Insert(_, _)
        Insert(day, sorted) ==
            IF sorted = <<>> THEN <<day>>
            ELSE IF JsLt(ParseInt(day), ParseInt(Head(sorted)))
            THEN <<day>> \o sorted
            ELSE <<Head(sorted)>> \o Insert(day, Tail(sorted))
        RECURSIVE sort(_)
        sort(days) ==
            IF days = <<>> THEN <<>>
            ELSE Insert(days[Len(days)], sort(SubSeq(days, 1, Len(days) - 1)))
        found(days, n) ==
            IF test(ReWholeWord(ReLit(WEEKDAY_MAP[n][1])), toLowerCase(text))
               /\ ~includes(days, Chars(WEEKDAY_MAP[n][2]))
            THEN Append(days, Chars(WEEKDAY_MAP[n][2])) ELSE days
        \* the loop over the first n entries of WEEKDAY_MAP
        RECURSIVE loop(_)
        loop(n) == IF n = 0 THEN <<>> ELSE found(loop(n - 1), n)
    IN sort(loop(Len(WEEKDAY_MAP)))

\* Some([hour, minute]) or None (null)
parseTime(text) ==
    LET timePatterns ==
            << \* /(\d+):(\d+)\s*(am|pm)/i
               ReSeq(<<ReCap(1, ReDigits), ReLit(":"), ReCap(2, ReDigits),
                       ReWs0, ReCap(3, ReAmPm)>>),
               \* /(\d+)\s*(am|pm)/i
               ReSeq(<<ReCap(1, ReDigits), ReWs0, ReCap(2, ReAmPm)>>),
               \* /at\s+(\d+):(\d+)/i
               ReSeq(<<ReLit("at"), ReWs1, ReCap(1, ReDigits), ReLit(":"),
                       ReCap(2, ReDigits)>>),
               \* /at\s+(\d+)/i
               ReSeq(<<ReLit("at"), ReWs1, ReCap(1, ReDigits)>>) >>
        \* the body of the loop for a pattern that matched
        timeOf(m) ==
            [hour   |-> applyPeriod(ParseInt(m.group[1]),
                                    IF Truthy(m.group[3]) THEN m.group[3]
                                    ELSE IF Truthy(m.group[2]) THEN m.group[2]
                                    ELSE UndefinedStr),
             minute |-> IF Truthy(m.group[2]) /\ ParseInt(m.group[2]) # NaN
                        THEN ParseInt(m.group[2]) ELSE 0]
        matched(m, rest) == IF m.ok THEN Some(timeOf(m)) ELSE rest
        \* the loop over timePatterns, from pattern i on
        RECURSIVE from(_)
        from(i) ==
            IF i > Len(timePatterns) THEN
                IF test(ReWholeWord(ReLit("midnight")), text)
                THEN Some([hour |-> 0, minute |-> 0])
                ELSE IF test(ReWholeWord(ReLit("noon")), text)
                THEN Some([hour |-> 12, minute |-> 0])
                ELSE None
            ELSE matched(match(text, timePatterns[i]), from(i + 1))
    IN from(1)

\* this.parseTime(text) || { hour, minute: CONFIG.DEFAULT_MINUTE }
parseTimeOr(text, hour) ==
    IF parseTime(text) # None THEN parseTime(text)[1]
    ELSE [hour |-> hour, minute |-> DEFAULT_MINUTE]

\* (?:\s+at\s+)?(.+)? with the number of the capturing group; the dot is
\* every character that is not a line terminator
ReRest(k) ==
    ReSeq(<<ReOpt(ReSeq(<<ReWs1, ReLit("at"), ReWs1>>)),
            ReOpt(ReCap(k, ReRep(WordChars
                                 \cup {" ", "\t", "\f", ",", ":", "-", "'", ".",
                                       "/", "*", "!", "?"}, 1)))>>)

\* (?:every\s+)?
ReOptEvery == ReOpt(ReSeq(<<ReLit("every"), ReWs1>>))

\* (\d+)(?::(\d+))?\s*(am|pm) with groups k, k + 1 and k + 2
ReClock(k) ==
    ReSeq(<<ReCap(k, ReDigits),
            ReOpt(ReSeq(<<ReLit(":"), ReCap(k + 1, ReDigits)>>)), ReWs0,
            ReCap(k + 2, ReAmPm)>>)

\* every\s+(\d+)\s+
ReEveryN == ReSeq(<<ReLit("every"), ReWs1, ReCap(1, ReDigits), ReWs1>>)

\* createYearlyPattern
yearlyPattern ==
    [regex |->
        ReSeq(<<ReAlt(<<ReSeq(<<ReLit("once"), ReWs1, ReLit("a"), ReWs1,
                                ReLit("year")>>),
                        ReLit("annually"), ReLit("yearly")>>),
                ReOpt(ReSeq(<<ReWs1, ReWords(<<"on", "in">>)>>)), ReWs0,
                ReOpt(ReCap(1, ReWords(<<"january", "february", "march",
                                         "april", "may", "june", "july",
                                         "august", "september", "october",
                                         "november", "december">>))),
                ReWs0, ReOpt(ReCap(2, ReDigits)), ReOpt(ReOrdinalSuffix),
                ReRest(3)>>),
     handler |-> "yearly"]

\* createMonthlyPatterns
monthlyPatterns ==
    LET \* (?:each|every)\s+month
        ReEachMonth ==
            ReSeq(<<ReWords(<<"each", "every">>), ReWs1, ReLit("month")>>)
    IN
    << [regex |->
           ReSeq(<<ReOpt(ReSeq(<<ReLit("on"), ReWs1, ReLit("the"), ReWs1>>)),
                   ReCap(1, ReDigits), ReOrdinalSuffix, ReWs1,
                   ReOpt(ReSeq(<<ReLit("day"), ReWs1>>)), ReLit("of"), ReWs1,
                   ReEachMonth, ReRest(2)>>),
        handler |-> "dayOfMonth"],
       [regex |->
           ReSeq(<<ReWords(<<"every", "each">>), ReWs1, ReLit("month"), ReWs1,
                   ReLit("on"), ReWs1, ReOpt(ReSeq(<<ReLit("the"), ReWs1>>)),
                   ReCap(1, ReDigits), ReOpt(ReOrdinalSuffix), ReRest(2)>>),
        handler |-> "dayOfMonth"],
       [regex |->
           ReSeq(<<ReAlt(<<ReSeq(<<ReLit("once"), ReWs1, ReLit("a"), ReWs1,
                                   ReLit("month")>>),
                           ReLit("monthly")>>),
                   ReRest(1)>>),
        handler |-> "timed", hour |-> DEFAULT_HOUR,
        tail |-> <<"1", "*", "*">>],
       [regex |->
           ReSeq(<<ReOpt(ReSeq(<<ReLit("at"), ReWs1, ReLit("the"), ReWs1>>)),
                   ReWords(<<"start", "beginning">>), ReWs1, ReLit("of"),
                   ReWs1, ReEachMonth, ReRest(1)>>),
        handler |-> "timed", hour |-> DEFAULT_HOUR,
        tail |-> <<"1", "*", "*">>],
       [regex |->
           ReSeq(<<ReOpt(ReSeq(<<ReLit("at"), ReWs1, ReLit("the"), ReWs1>>)),
                   ReLit("end"), ReWs1, ReLit("of"), ReWs1, ReEachMonth,
                   ReRest(1)>>),
        handler |-> "timed", hour |-> DEFAULT_HOUR,
        tail |-> <<"28-31", "*", "*">>] >>

\* createPeriodicPatterns
periodicPatterns ==
    << [regex |-> ReSeq(<<ReEveryN, ReDays, ReRest(2)>>),
        handler |-> "everyDays"],
       [regex |-> ReSeq(<<ReEveryN, ReLit("week"), ReOpt(ReLit("s")),
                          ReRest(2)>>),
        handler |-> "timed", hour |-> DEFAULT_HOUR,
        tail |-> <<"*", "*", "1">>],
       [regex |-> ReSeq(<<ReEveryN, ReLit("month"), ReOpt(ReLit("s")),
                          ReRest(2)>>),
        handler |-> "everyMonths"],
       [regex |-> ReSeq(<<ReOptEvery, ReLit("quarter"), ReOpt(ReLit("ly")),
                          ReRest(1)>>),
        handler |-> "timed", hour |-> DEFAULT_HOUR,
        tail |-> <<"1", "*/3", "*">>],
       [regex |->
           ReSeq(<<ReAlt(<<ReSeq(<<ReLit("bi"), ReOpt(ReLit("-")),
                                   ReLit("weekly")>>),
                           ReSeq(<<ReLit("every"), ReWs1, ReLit("other"),
                                   ReWs1, ReLit("week")>>)>>),
                   ReRest(1)>>),
        handler |-> "timed", hour |-> DEFAULT_HOUR,
        tail |-> <<"*", "*", "1">>],
       [regex |->
           ReSeq(<<ReAlt(<<ReSeq(<<ReLit("bi"), ReOpt(ReLit("-")),
                                   ReLit("monthly")>>),
                           ReSeq(<<ReLit("twice"), ReWs1, ReLit("a"), ReWs1,
                                   ReLit("month")>>)>>),
                   ReRest(1)>>),
        handler |-> "timed", hour |-> DEFAULT_HOUR,
        tail |-> <<"1,15", "*", "*">>] >>

\* createMultipleDaysPattern
multipleDaysPattern ==
    [regex |->
        ReSeq(<<ReOpt(ReSeq(<<ReLit("on"), ReWs1>>)), ReOptEvery,
                ReCap(1, ReSeq(<<ReRep(Letters \cup {","} \cup WhiteSpace, 1),
                                 ReWords(<<"and", ",">>), ReWs0,
                                 ReRep(Letters, 1)>>)),
                ReRest(2)>>),
     handler |-> "multipleDays"]

\* createIntervalPatterns
intervalPatterns ==
    << [regex |-> ReSeq(<<ReEveryN,
                          ReWords(<<"minute", "minutes", "min", "mins">>)>>),
        handler |-> "everyMinutes"],
       [regex |-> ReSeq(<<ReEveryN,
                          ReWords(<<"hour", "hours", "hr", "hrs">>)>>),
        handler |-> "everyHours"],
       [regex |-> ReSeq(<<ReLit("every"), ReWs1, ReLit("minute")>>),
        handler |-> "fixed", cron |-> "* * * * *"],
       [regex |-> ReSeq(<<ReLit("every"), ReWs1, ReLit("hour")>>),
        handler |-> "fixed", cron |-> "0 * * * *"] >>

\* createWeekdayPatterns
weekdayPatterns ==
    << [regex |->
           ReSeq(<<ReOptEvery,
                   ReWords(<<"weekday", "weekdays", "monday through friday",
                             "mon-fri">>),
                   ReRest(1)>>),
        handler |-> "timed", hour |-> DEFAULT_WEEKDAY_HOUR,
        tail |-> <<"*", "*", "1-5">>],
       [regex |->
           ReSeq(<<ReOptEvery,
                   ReWords(<<"weekend", "weekends", "saturday and sunday",
                             "sat and sun">>),
                   ReRest(1)>>),
        handler |-> "timed", hour |-> DEFAULT_WEEKEND_HOUR,
        tail |-> <<"*", "*", "6,0">>] >>

\* createSingleDayPatterns
singleDayPatterns ==
    LET days ==
            << [pattern |-> <<"monday", "mon">>, num |-> 1],
               [pattern |-> <<"tuesday", "tue">>, num |-> 2],
               [pattern |-> <<"wednesday", "wed">>, num |-> 3],
               [pattern |-> <<"thursday", "thu">>, num |-> 4],
               [pattern |-> <<"friday", "fri">>, num |-> 5],
               [pattern |-> <<"saturday", "sat">>, num |-> 6],
               [pattern |-> <<"sunday", "sun">>, num |-> 0] >>
        \* (?:every\s+)?(?:on\s+)?(day.pattern)
        ReSingleDay(day) ==
            ReSeq(<<ReOptEvery, ReOpt(ReSeq(<<ReLit("on"), ReWs1>>)),
                    ReCap(1, ReWords(day.pattern))>>)
        \* a day with a time
        withTime(day) ==
            [regex |-> ReSeq(<<ReSingleDay(day), ReWs1, ReLit("at"), ReWs1,
                               ReClock(2)>>),
             handler |-> "clock", first |-> 2, weekday |-> ToStr(day.num)]
        \* a day without a time
        withoutTime(day) ==
            [regex |-> ReSeq(<<ReSingleDay(day),
                               ReNot(ReSeq(<<ReWs1, ReLit("and")>>)),
                               ReNot(ReSeq(<<ReWs0, ReLit(",")>>))>>),
             handler |-> "fixedDay", weekday |-> ToStr(day.num)]
    IN SubSeq([i \in 1..Len(days) |-> withTime(days[i])], 1, Len(days))
       \o SubSeq([i \in 1..Len(days) |-> withoutTime(days[i])], 1, Len(days))

\* createDailyPatterns
dailyPatterns ==
    << [regex |-> ReSeq(<<ReOptEvery, ReLit("day"), ReWs1, ReLit("at"), ReWs1,
                          ReClock(1)>>),
        handler |-> "clock", first |-> 1, weekday |-> <<"*">>],
       [regex |-> ReSeq(<<ReOptEvery, ReLit("day")>>),
        handler |-> "fixed", cron |-> "0 0 * * *"] >>

\* createSpecialTimePatterns
specialTimePatterns ==
    << [regex |-> ReSeq(<<ReOpt(ReSeq(<<ReLit("at"), ReWs1>>)), ReClock(1)>>),
        handler |-> "clock", first |-> 1, weekday |-> <<"*">>],
       [regex |-> ReSeq(<<ReOpt(ReSeq(<<ReLit("at"), ReWs1>>)),
                          ReLit("midnight")>>),
        handler |-> "fixed", cron |-> "0 0 * * *"],
       [regex |-> ReSeq(<<ReOpt(ReSeq(<<ReLit("at"), ReWs1>>)),
                          ReLit("noon")>>),
        handler |-> "fixed", cron |-> "0 12 * * *"] >>

\* initializePatterns
patterns ==
    <<yearlyPattern>> \o monthlyPatterns \o periodicPatterns
    \o <<multipleDaysPattern>> \o intervalPatterns \o weekdayPatterns
    \o singleDayPatterns \o dailyPatterns \o specialTimePatterns

\* pattern.handler(match, lowerText): Some(cron expression) or None (null)
handle(pattern, m, text) ==
    LET \* the hour and minute of a handler that reads
        \* (\d+)(?::(\d+))?\s*(am|pm) from groups first, first + 1, first + 2
        clockOf(first) ==
            [hour   |-> applyPeriod(ParseInt(m.group[first]), m.group[first + 2]),
             minute |-> IF Truthy(m.group[first + 1])
                        THEN ParseInt(m.group[first + 1]) ELSE 0]
        \* the handler of createMultipleDaysPattern
        multipleDays(days, time) ==
            IF ~test(ReWords(<<"monday", "tuesday", "wednesday", "thursday",
                               "friday", "saturday", "sunday", "mon", "tue",
                               "wed", "thu", "fri", "sat", "sun">>), m.group[1])
            THEN None
            ELSE IF Len(days) = 0 THEN None
            ELSE Some(fields(ToStr(time.minute), ToStr(time.hour), Chars("*"),
                             Chars("*"), join(days, ",")))
        \* the handler of createYearlyPattern
        yearly(time) ==
            Some(fields(ToStr(time.minute), ToStr(time.hour),
                        ToStr(IF Truthy(m.group[2]) THEN ParseInt(m.group[2])
                              ELSE 1),
                        ToStr(IF Truthy(m.group[1])
                              THEN Lookup(EngineMonthMap,
                                          toLowerCase(m.group[1]))[1]
                              ELSE 1),
                        Chars("*")))
        \* the handlers that read a time from the text
        timed(time, dayOfMonth, month, weekday) ==
            Some(fields(ToStr(time.minute), ToStr(time.hour), dayOfMonth, month,
                        weekday))
    IN
    CASE pattern.handler = "yearly" -> yearly(parseTimeOr(text, DEFAULT_HOUR))
      [] pattern.handler = "dayOfMonth" ->
           timed(parseTimeOr(text, DEFAULT_HOUR), ToStr(ParseInt(m.group[1])),
                 Chars("*"), Chars("*"))
      [] pattern.handler = "timed" ->
           timed(parseTimeOr(text, pattern.hour), Chars(pattern.tail[1]),
                 Chars(pattern.tail[2]), Chars(pattern.tail[3]))
      [] pattern.handler = "everyDays" ->
           timed(parseTimeOr(text, DEFAULT_HOUR),
                 Chars("*/") \o ToStr(ParseInt(m.group[1])), Chars("*"),
                 Chars("*"))
      [] pattern.handler = "everyMonths" ->
           timed(parseTimeOr(text, DEFAULT_HOUR), Chars("1"),
                 Chars("*/") \o ToStr(ParseInt(m.group[1])), Chars("*"))
      [] pattern.handler = "multipleDays" ->
           multipleDays(parseWeekdays(m.group[1]),
                        parseTimeOr(text, DEFAULT_WEEKDAY_HOUR))
      [] pattern.handler = "everyMinutes" ->
           Some(fields(Chars("*/") \o m.group[1], Chars("*"), Chars("*"),
                       Chars("*"), Chars("*")))
      [] pattern.handler = "everyHours" ->
           Some(fields(Chars("0"), Chars("*/") \o m.group[1], Chars("*"),
                       Chars("*"), Chars("*")))
      [] pattern.handler = "fixed" -> Some(Chars(pattern.cron))
      [] pattern.handler = "fixedDay" ->
           Some(fields(Chars("0"), ToStr(DEFAULT_WEEKDAY_HOUR), Chars("*"),
                       Chars("*"), pattern.weekday))
      [] pattern.handler = "clock" ->
           timed(clockOf(pattern.first), Chars("*"), Chars("*"), pattern.weekday)

\* NaturalLanguageParser.parseWithRegex: the handler of the first pattern
\* that matches decides, whatever it returns (no handler throws)
parseWithRegex(text) ==
    LET \* the handler of pattern number first of the patterns that match
        handled(lowerText, first) ==
            handle(patterns[first], match(lowerText, patterns[first].regex),
                   lowerText)
        firstOf(lowerText, hits) ==
            IF hits = {} THEN None
            ELSE handled(lowerText,
                         CHOOSE i \in hits : \A other \in hits : i <= other)
        matching(lowerText) ==
            firstOf(lowerText,
                    {i \in 1..Len(patterns) : test(patterns[i].regex, lowerText)})
    IN matching(trim(toLowerCase(text)))

\* the values of text: a string, or a value that is not a string
StringInput(str) == [type |-> "string", value |-> Chars(str)]

NullInput == [type |-> "object", value |-> <<>>]

UndefinedInput == [type |-> "undefined", value |-> <<>>]

NumberInput(n) == [type |-> "number", value |-> n]

\* !text
Falsy(text) ==
    \/ text.type = "undefined"
    \/ text.type = "object"
    \/ text.type = "number" /\ (text.value = 0 \/ text.value = NaN)
    \/ text.type = "string" /\ text.value = <<>>

\* NaturalLanguageParser.parse: what it returns, Some(cron expression) or
\* None (null), or Thrown if an Error leaves it; the path that produced it,
\* "nlp" (the return of step 1), "regex" (the return of step 2) or "null"
\* (neither); whether step 2 ran; what it assigns to this.lastParserUsed,
\* None if it assigns nothing ("null" stands for the value null of
\* lastParserUsed); and nlpResult, what this.nlpEngine.parse(text) gave
\* (None also where it was not called)

\* parse without its try and catch: an Error of step 1 leaves it
NaturalLanguageParserParse_NoCatch(text, chrono) ==
    LET regexStep(nlpResult, regexResult) ==
            IF regexResult # None
            THEN [returns |-> regexResult, path |-> "regex", fallback |-> TRUE,
                  assigns |-> Some("regex"), nlpResult |-> nlpResult]
            ELSE [returns |-> None, path |-> "null", fallback |-> TRUE,
                  assigns |-> Some("null"), nlpResult |-> nlpResult]
        nlpStep(str, nlpResult, cron) ==
            IF cron # None
            THEN [returns |-> cron, path |-> "nlp", fallback |-> FALSE,
                  assigns |-> Some("nlp"), nlpResult |-> nlpResult]
            ELSE regexStep(nlpResult, parseWithRegex(str))
        engineStep(str, nlpResult) ==
            IF nlpResult = Thrown
            THEN [returns |-> Thrown, path |-> "null", fallback |-> FALSE,
                  assigns |-> None, nlpResult |-> nlpResult]
            ELSE nlpStep(str, nlpResult, convert(nlpResult))
    IN
    IF Falsy(text) \/ text.type # "string" \/ trim(text.value) = <<>>
    THEN [returns |-> None, path |-> "null", fallback |-> FALSE,
          assigns |-> None, nlpResult |-> None]
    ELSE engineStep(text.value, SemanticNLPEngineParse(text.value, chrono))

\* parse trying the regex patterns first and the engine after them
NaturalLanguageParserParse_RegexFirst(text, chrono) ==
    LET nlpStep(nlpResult, cron) ==
            IF cron # None
            THEN [returns |-> cron, path |-> "nlp", fallback |-> TRUE,
                  assigns |-> Some("nlp"), nlpResult |-> nlpResult]
            ELSE [returns |-> None, path |-> "null", fallback |-> TRUE,
                  assigns |-> Some("null"), nlpResult |-> nlpResult]
        engineStep(nlpResult) ==
            IF nlpResult = Thrown THEN nlpStep(nlpResult, None)
            ELSE nlpStep(nlpResult, convert(nlpResult))
        regexStep(str, regexResult) ==
            IF regexResult # None
            THEN [returns |-> regexResult, path |-> "regex", fallback |-> TRUE,
                  assigns |-> Some("regex"),
                  nlpResult |-> SemanticNLPEngineParse(str, chrono)]
            ELSE engineStep(SemanticNLPEngineParse(str, chrono))
    IN
    IF Falsy(text) \/ text.type # "string" \/ trim(text.value) = <<>>
    THEN [returns |-> None, path |-> "null", fallback |-> FALSE,
          assigns |-> None, nlpResult |-> None]
    ELSE regexStep(text.value, parseWithRegex(text.value))

NaturalLanguageParserParse(text, chrono) ==
    LET \* step 2, for the result of parseWithRegex
        regexStep(nlpResult, regexResult) ==
            IF regexResult # None
            THEN [returns |-> regexResult, path |-> "regex", fallback |-> TRUE,
                  assigns |-> Some("regex"), nlpResult |-> nlpResult]
            ELSE [returns |-> None, path |-> "null", fallback |-> TRUE,
                  assigns |-> Some("null"), nlpResult |-> nlpResult]
        \* step 1 from "if (cronExpression)" on, for the cron expression made
        \* of the result of the engine (None if the engine returned null or
        \* the converter did)
        nlpStep(str, nlpResult, cron) ==
            IF cron # None
            THEN [returns |-> cron, path |-> "nlp", fallback |-> FALSE,
                  assigns |-> Some("nlp"), nlpResult |-> nlpResult]
            ELSE regexStep(nlpResult, parseWithRegex(str))
        \* step 1 from the return of the engine on; an Error is caught and
        \* step 2 follows
        engineStep(str, nlpResult) ==
            IF nlpResult = Thrown
            THEN regexStep(nlpResult, parseWithRegex(str))
            ELSE nlpStep(str, nlpResult, convert(nlpResult))
    IN
    IF Falsy(text) \/ text.type # "string" \/ trim(text.value) = <<>>
    THEN [returns |-> None, path |-> "null", fallback |-> FALSE,
          assigns |-> None, nlpResult |-> None]
    ELSE engineStep(text.value, SemanticNLPEngineParse(text.value, chrono))

(***************************************************************************)
(* Inputs of NaturalLanguageParser.parse                                   *)
(***************************************************************************)
\* the texts given to parse: phrases of the three outcomes (extractor,
\* fallback, no result), and the values parse returns null for at once
NLInputs ==
    << StringInput("every 5 minutes"),
       StringInput("every five minutes"),
       StringInput("every 2 hours"),
       StringInput("every couple of hours"),
       StringInput("every minute"),
       StringInput("every hour"),
       StringInput("hourly"),
       StringInput("daily at 3pm"),
       StringInput("daily at midnight"),
       StringInput("every day at 9am"),
       StringInput("every other day at noon"),
       StringInput("weekdays at 9am"),
       StringInput("business days at 9am"),
       StringInput("weekends"),
       StringInput("every weekend at 10am"),
       StringInput("every Monday"),
       StringInput("every Monday at 9am"),
       StringInput("every Monday and Friday at 2:30pm"),
       StringInput("every saturday and sunday at 8am"),
       StringInput("Monday to Friday at 9:30am"),
       StringInput("every Tuesday in January to March"),
       StringInput("every monday and thursday at 10am in January to April"),
       StringInput("every weekday at 10am in June to August"),
       StringInput("once a month"),
       StringInput("once a year"),
       StringInput("twice a day"),
       StringInput("3 times a day at 8am"),
       StringInput("0 times a day"),
       StringInput("quarterly"),
       StringInput("quarterly at midnight"),
       StringInput("bi-weekly"),
       StringInput("every 3 days"),
       StringInput("every 2 weeks"),
       StringInput("every 6 months"),
       StringInput("15th of every month at 10am"),
       StringInput("on the 15th of each month at 3pm"),
       StringInput("at the start of every month"),
       StringInput("first monday of every month"),
       StringInput("annually on December 25th at midnight"),
       StringInput("every year on March 15"),
       StringInput("at noon"),
       StringInput("at 5pm"),
       StringInput("at six o'clock"),
       StringInput("monday morning"),
       StringInput("every time"),
       StringInput("gibberish that makes no sense"),
       StringInput("hello world"),
       StringInput("  every hour  "),
       StringInput(""),
       StringInput("   "),
       NullInput,
       UndefinedInput,
       NumberInput(42),
       NumberInput(0),
       StringInput("this and that every minute"),
       StringInput("4 times a week at 3pm"),
       StringInput("once a week on monday at 3pm"),
       StringInput("at work in 2 hours") >>

\* what chrono.parse yields for a text: no result, or the time of its first
\* result; chrono.parse(text) is called without a reference date and takes
\* the current instant, so that the time of a result is not fixed by the text
ChronoOutcomes ==
    <<None, Some([hour |-> 6, minute |-> 5]), Some([hour |-> 18, minute |-> 35])>>

\* what the libraries of the extractor do for a text: chrono.parse yields
\* one of ChronoOutcomes, or nlp(normalized) throws
LibraryOutcomes == ChronoOutcomes \o <<Thrown>>

\* parseOutcomes[i][c] is parse(NLInputs[i]) where the libraries do
\* LibraryOutcomes[c]
parseOutcomes ==
    SubSeq([i \in 1..Len(NLInputs) |->
               SubSeq([c \in 1..Len(LibraryOutcomes) |->
                          NaturalLanguageParserParse(NLInputs[i],
                                                     LibraryOutcomes[c])],
                      1, Len(LibraryOutcomes))],
           1, Len(NLInputs))

\* the intents given to convert: without a frequency, every combination
\* of a time, weekdays, months, a day of the month, an ordinal and a
\* recurrence or none of each; with a frequency, every combination of a
\* time, weekdays, months and a day of the month or none of each
IntervalFrequencies ==
    {[type |-> "interval", value |-> n, unit |-> Chars(unit)] :
        n \in {2, 5},
        unit \in {"minute", "hour", "day", "week", "month", "year"}}

TimesPerFrequencies ==
    {[type |-> "times_per", value |-> n, unit |-> Chars(unit)] :
        n \in 1..4, unit \in {"day", "week", "month", "year"}}

IntentTimes == {None, Some([hour |-> 14, minute |-> 30, source |-> "regex"])}

Intents ==
    [frequency  : {None},
     time       : IntentTimes,
     weekdays   : {None, Some(<<3>>), Some(<<1, 4>>)},
     months     : {None, Some(<<3, 6>>)},
     dayOfMonth : {None, Some(15)},
     ordinal    : {None, Some([value |-> 1, type |-> "weekday"])},
     recurring  : {None, Some("daily"), Some("yearly"), Some("quarterly")}]
    \cup
    [frequency  : {Some(f) : f \in IntervalFrequencies \cup TimesPerFrequencies},
     time       : IntentTimes,
     weekdays   : {None, Some(<<3>>)},
     months     : {None, Some(<<3, 6>>)},
     dayOfMonth : {None, Some(15)},
     ordinal    : {None},
     recurring  : {None}]

\* the elements of a set of integers in ascending order
RECURSIVE Ascending(_)
Ascending(S) ==
    IF S = {} THEN <<>>
    ELSE LET least == CHOOSE x \in S : \A y \in S : x <= y
         IN <<least>> \o Ascending(S \ {least})

\* the elements of a set of integers in descending order
Descending(S) ==
    [i \in 1..Cardinality(S) |-> Ascending(S)[Cardinality(S) + 1 - i]]

\* the weekday sets given to formatWeekdays: none, and every subset of 0..6
\* as an array in ascending and in descending order
WeekdayArrays ==
    {None} \cup {Some(Ascending(S)) : S \in SUBSET (0..6)}
           \cup {Some(Descending(S)) : S \in SUBSET (0..6)}

\* the names of the weekdays 0..6 and of the months 1..12
WeekdayNames ==
    <<"sunday", "monday", "tuesday", "wednesday", "thursday", "friday",
      "saturday">>

MonthNames ==
    <<"january", "february", "march", "april", "may", "june", "july",
      "august", "september", "october", "november", "december">>

\* the range phrases given to the extractors: every start and end weekday
\* and every start and end month, with each of the connectives
RangePhrases ==
    {[unit |-> "weekday", start |-> start, end |-> end,
      text |-> Chars(WeekdayNames[start + 1]) \o Chars(to)
                  \o Chars(WeekdayNames[end + 1])] :
        start \in 0..6, end \in 0..6, to \in {" to ", " through ", " - "}}
    \cup
    {[unit |-> "month", start |-> start, end |-> end,
      text |-> Chars(MonthNames[start]) \o Chars(to) \o Chars(MonthNames[end])] :
        start \in 1..12, end \in 1..12, to \in {" to ", " through ", " - "}}

(***************************************************************************)
(* State                                                                   *)
(***************************************************************************)
VARIABLES
    clock,           \* index of the instant that new Date() returns
    cronExpression,  \* the string last given to CronParser.parse
    parsed,          \* what CronParser.parse returned or threw for it
    schedule,        \* the call of generateNextExecutions(parsed) just made
    matchCall,       \* the call of matchesCron(date, parsed) just made
    lastParserUsed,  \* this.lastParserUsed of the NaturalLanguageParser
    nlCall,          \* the call of NaturalLanguageParser.parse just made
    convCall,        \* the call of a method of NLPToCronConverter just made
    extractCall,     \* the extractors of SemanticNLPEngine applied to a text
    ui               \* CronChecker: its mode, its two inputs and what it displays

vars == <<clock, cronExpression, parsed, schedule, matchCall, lastParserUsed,
          nlCall, convCall, extractCall, ui>>

\* new CronChecker(): natural mode, the two inputs empty, showExamples(), which
\* also hides the results; the page loads with the error message and the
\* converted expression hidden.  A display field is TRUE when the element's
\* style.display is not 'none'; nlParser is the lastParserUsed of this.nlParser.
CronCheckerConstructed ==
    [currentMode |-> "natural", naturalInput |-> <<>>, cronInput |-> <<>>,
     convertedCron |-> FALSE, examplesSection |-> TRUE,
     resultsSection |-> FALSE, errorMessage |-> FALSE, nlParser |-> "null"]

NoCall == [called |-> FALSE]

Init ==
    /\ clock = 1
    /\ cronExpression = <<>>
    /\ parsed = Err("NOT_PARSED")
    /\ schedule = NoCall
    /\ matchCall = NoCall
    /\ lastParserUsed = "null"
    /\ nlCall = NoCall
    /\ convCall = NoCall
    /\ extractCall = NoCall
    /\ ui = CronCheckerConstructed

\* time passes; the list returned before is of an earlier now
Tick ==
    /\ clock < MaxClockSamples
    /\ clock' = clock + 1
    /\ schedule' = NoCall
    /\ UNCHANGED <<cronExpression, parsed, matchCall, lastParserUsed, nlCall,
                   convCall, extractCall, ui>>

\* CronParser.parse(input)
Compile(input) ==
    /\ cronExpression' = input
    /\ parsed' = CronParserParse(input)
    /\ schedule' = NoCall
    /\ matchCall' = NoCall
    /\ UNCHANGED <<clock, lastParserUsed, nlCall, convCall, extractCall, ui>>

\* CronScheduler.generateNextExecutions(parsed) on a compiled expression
Generate ==
    /\ parsed.ok
    /\ schedule' = [called |-> TRUE, now |-> ClockSamples[clock],
                    executions |-> generateNextExecutions(parsed.value, ClockSamples[clock])]
    /\ UNCHANGED <<clock, cronExpression, parsed, matchCall, lastParserUsed,
                   nlCall, convCall, extractCall, ui>>

Next ==
    \/ Tick
    \/ \E input \in SchedInputs \cup InvalidInputs : Compile(input)
    \/ Generate

Spec == Init /\ [][Next]_vars

\* CronScheduler.matchesCron(date, parsed) on a compiled expression
Match(k) ==
    /\ parsed.ok
    /\ matchCall' = [called |-> TRUE, sample |-> k,
                     result |-> matchesCron(MatchDates[k].date, parsed.value)]
    /\ UNCHANGED <<clock, cronExpression, parsed, schedule, lastParserUsed,
                   nlCall, convCall, extractCall, ui>>

NextMatch ==
    \/ \E input \in MatchInputs \cup InvalidInputs : Compile(input)
    \/ \E k \in 1..MaxMatchDates : Match(k)

SpecMatch == Init /\ [][NextMatch]_vars

\* NaturalLanguageParser.parse(NLInputs[i]), the libraries doing
\* LibraryOutcomes[c]
NLParse(i, c) ==
    LET \* the effect of a call of parse whose outcome is out
        called(out) ==
            /\ lastParserUsed' = IF out.assigns = None THEN lastParserUsed
                                 ELSE out.assigns[1]
            /\ nlCall' = [called |-> TRUE, input |-> i, chrono |-> c,
                          returns |-> out.returns, path |-> out.path,
                          fallback |-> out.fallback,
                          nlpResult |-> out.nlpResult]
    IN /\ called(parseOutcomes[i][c])
       /\ UNCHANGED <<clock, cronExpression, parsed, schedule, matchCall,
                      convCall, extractCall, ui>>

NextNL ==
    \E i \in 1..Len(NLInputs), c \in 1..Len(LibraryOutcomes) : NLParse(i, c)

SpecNL == Init /\ [][NextNL]_vars

\* NaturalLanguageParser.getLastParserUsed()
getLastParserUsed == lastParserUsed

\* a range phrase is about to be given to SemanticNLPEngine.parse
InitExtract ==
    /\ clock = 1
    /\ cronExpression = <<>>
    /\ parsed = Err("NOT_PARSED")
    /\ schedule = NoCall
    /\ matchCall = NoCall
    /\ lastParserUsed = "null"
    /\ nlCall = NoCall
    /\ convCall = NoCall
    /\ extractCall \in {[called |-> FALSE, phrase |-> phrase] :
                            phrase \in RangePhrases}
    /\ ui = CronCheckerConstructed

\* SemanticNLPEngine.parse: normalizeInput, then extractWeekdays and
\* extractMonths on the normalized text
Extract ==
    LET normalized == normalizeInput(extractCall.phrase.text) IN
    /\ ~extractCall.called
    /\ extractCall' = [called |-> TRUE, phrase |-> extractCall.phrase,
                       weekdays |-> extractWeekdays(normalized),
                       months |-> extractMonths(normalized)]
    /\ UNCHANGED <<clock, cronExpression, parsed, schedule, matchCall,
                   lastParserUsed, nlCall, convCall, ui>>

NextExtract == Extract

SpecExtract == InitExtract /\ [][NextExtract]_vars

\* NLPToCronConverter.convert(nlpResult) on an intent
Convert(nlpResult) ==
    /\ convCall' = [called |-> TRUE, method |-> "convert",
                    nlpResult |-> nlpResult, returns |-> convert(Some(nlpResult))]
    /\ UNCHANGED <<clock, cronExpression, parsed, schedule, matchCall,
                   lastParserUsed, nlCall, extractCall, ui>>

\* NLPToCronConverter.formatWeekdays(weekdays)
FormatWeekdays(weekdays) ==
    /\ convCall' = [called |-> TRUE, method |-> "formatWeekdays",
                    weekdays |-> weekdays, returns |-> formatWeekdays(weekdays)]
    /\ UNCHANGED <<clock, cronExpression, parsed, schedule, matchCall,
                   lastParserUsed, nlCall, extractCall, ui>>

NextConvert ==
    \/ \E nlpResult \in Intents : Convert(nlpResult)
    \/ \E weekdays \in WeekdayArrays : FormatWeekdays(weekdays)

SpecConvert == Init /\ [][NextConvert]_vars

(***************************************************************************)
(* CronChecker: the controller of the page                                 *)
(***************************************************************************)
\* texts typed into the natural-language input
UINaturalTexts ==
    { <<>>, Chars("   "), Chars("every 5 minutes"), Chars("every 2 hours"),
      Chars("0 times a day"), Chars("hello world") }

\* texts typed into the cron input
UICronTexts ==
    { <<>>, Expr(Every(5), Star, Star, Star, Star),
      Expr(N(0), N(9), Star, Star, Dash(1, 5)),
      Expr(N(60), Star, Star, Star, Star) }

\* data-text and data-cron of the example buttons
UINaturalExamples == { Chars("every 5 minutes"), Chars("0 times a day") }

UICronExamples ==
    { Expr(Every(5), Star, Star, Star, Star),
      Expr(N(0), N(9), Star, Star, Dash(1, 5)) }

Modes == {"natural", "cron"}

\* this.nlParser.parse(text) when the libraries answer as LibraryOutcomes[c]
nlParserParse(text, c) ==
    parseOutcomes[CHOOSE i \in 1..Len(NLInputs) :
                      NLInputs[i] = [type |-> "string", value |-> text]][c]

\* this.nlParser.parse as it answers during one step of the page: a function
\* of the text, one for each answer of the libraries
nlParserAnswers ==
    { [text \in { trim(t) : t \in UINaturalTexts \cup UINaturalExamples }
                    \ { <<>> } |-> nlParserParse(text, c)] :
        c \in 1..Len(LibraryOutcomes) }

\* CronChecker.showExamples(): the examples shown, hideResults()
showExamples(u) == [u EXCEPT !.examplesSection = TRUE, !.resultsSection = FALSE]

\* CronChecker.handleNaturalInput(text); displayResults ends with showResults()
handleNaturalInput(u, value, parse) ==
    LET text == trim(value)
        out == parse[text]
        hidden == [u EXCEPT !.examplesSection = FALSE,
                            !.nlParser = IF out.assigns = None THEN @
                                         ELSE out.assigns[1]]
    IN IF text = <<>>
       THEN [showExamples([u EXCEPT !.convertedCron = FALSE])
                EXCEPT !.errorMessage = FALSE]
       ELSE IF out.returns # None /\ out.returns[1] # <<>>
            THEN IF CronParserParse(out.returns[1]).ok
                 THEN [hidden EXCEPT !.convertedCron = TRUE,
                                     !.resultsSection = TRUE,
                                     !.errorMessage = FALSE]
                 ELSE [hidden EXCEPT !.convertedCron = TRUE,
                                     !.errorMessage = TRUE,
                                     !.resultsSection = FALSE]
            ELSE [hidden EXCEPT !.convertedCron = FALSE,
                                !.errorMessage = TRUE,
                                !.resultsSection = FALSE]

\* CronChecker.handleCronInput(cronExpression)
handleCronInput(u, value) ==
    LET text == trim(value)
        hidden == [u EXCEPT !.examplesSection = FALSE]
    IN IF text = <<>>
       THEN [showExamples(u) EXCEPT !.errorMessage = FALSE]
       ELSE IF CronParserParse(text).ok
            THEN [hidden EXCEPT !.resultsSection = TRUE, !.errorMessage = FALSE]
            ELSE [hidden EXCEPT !.errorMessage = TRUE, !.resultsSection = FALSE]

\* CronChecker.switchMode(mode)
switchMode(u, mode, parse) ==
    LET switched == [u EXCEPT !.currentMode = mode] IN
    IF mode = "natural"
    THEN IF trim(switched.naturalInput) # <<>>
         THEN handleNaturalInput(switched, trim(switched.naturalInput), parse)
         ELSE showExamples([switched EXCEPT !.convertedCron = FALSE])
    ELSE IF trim(switched.cronInput) # <<>>
         THEN handleCronInput([switched EXCEPT !.convertedCron = FALSE],
                              trim(switched.cronInput))
         ELSE showExamples([switched EXCEPT !.convertedCron = FALSE])

\* the input event of the natural-language input, which is displayed in
\* natural mode only: the user changes its value to text
NaturalInput(text, parse) ==
    /\ ui.currentMode = "natural"
    /\ text # ui.naturalInput
    /\ ui' = handleNaturalInput([ui EXCEPT !.naturalInput = text], text, parse)
    /\ UNCHANGED <<clock, cronExpression, parsed, schedule, matchCall,
                   lastParserUsed, nlCall, convCall, extractCall>>

\* the input event of the cron input, which is displayed in cron mode only
CronInput(text) ==
    /\ ui.currentMode = "cron"
    /\ text # ui.cronInput
    /\ ui' = handleCronInput([ui EXCEPT !.cronInput = text], text)
    /\ UNCHANGED <<clock, cronExpression, parsed, schedule, matchCall,
                   lastParserUsed, nlCall, convCall, extractCall>>

\* a click on clearNaturalBtn, which toggleClearButton makes visible while
\* the input holds more than white space
ClearNatural ==
    /\ ui.currentMode = "natural"
    /\ trim(ui.naturalInput) # <<>>
    /\ ui' = handleNaturalInput([ui EXCEPT !.naturalInput = <<>>], <<>>, <<>>)
    /\ UNCHANGED <<clock, cronExpression, parsed, schedule, matchCall,
                   lastParserUsed, nlCall, convCall, extractCall>>

\* a click on clearCronBtn
ClearCron ==
    /\ ui.currentMode = "cron"
    /\ trim(ui.cronInput) # <<>>
    /\ ui' = handleCronInput([ui EXCEPT !.cronInput = <<>>], <<>>)
    /\ UNCHANGED <<clock, cronExpression, parsed, schedule, matchCall,
                   lastParserUsed, nlCall, convCall, extractCall>>

\* a click on naturalModeBtn or on cronModeBtn
ModeButton(mode, parse) ==
    /\ ui' = switchMode(ui, mode, parse)
    /\ UNCHANGED <<clock, cronExpression, parsed, schedule, matchCall,
                   lastParserUsed, nlCall, convCall, extractCall>>

\* a click on an .example-btn of the examples section; switchMode('cron')
\* does not call parse
ExampleClick(cron) ==
    /\ ui.examplesSection
    /\ ui' = handleCronInput([switchMode(ui, "cron", <<>>)
                                 EXCEPT !.cronInput = cron], cron)
    /\ UNCHANGED <<clock, cronExpression, parsed, schedule, matchCall,
                   lastParserUsed, nlCall, convCall, extractCall>>

\* a click on a .natural-example-btn of the examples section; parse may be
\* called twice, on the input's former value and on the example's text
NaturalExampleClick(text, parse1, parse2) ==
    /\ ui.examplesSection
    /\ ui' = handleNaturalInput([switchMode(ui, "natural", parse1)
                                    EXCEPT !.naturalInput = text], text, parse2)
    /\ UNCHANGED <<clock, cronExpression, parsed, schedule, matchCall,
                   lastParserUsed, nlCall, convCall, extractCall>>

NextUI ==
    \E parse1, parse2 \in nlParserAnswers :
        \/ \E text \in UINaturalTexts : NaturalInput(text, parse1)
        \/ \E text \in UICronTexts : CronInput(text)
        \/ ClearNatural
        \/ ClearCron
        \/ \E mode \in Modes : ModeButton(mode, parse1)
        \/ \E cron \in UICronExamples : ExampleClick(cron)
        \/ \E text \in UINaturalExamples :
               NaturalExampleClick(text, parse1, parse2)

SpecUI == Init /\ [][NextUI]_vars

(***************************************************************************)
(* Properties of CronScheduler.generateNextExecutions                      *)
(***************************************************************************)
\* the first instant of calendar minute m
MinuteStart(m) == [min |-> m, ms |-> 0]

\* some returned occurrence falls in calendar minute m
Returned(m) ==
    \E k \in 1..Len(schedule.executions) : schedule.executions[k].min = m

\* calendar minute m begins after now and before some returned occurrence
BeforeLatest(m) ==
    /\ Later(MinuteStart(m), schedule.now)
    /\ \E k \in 1..Len(schedule.executions) :
            Later(schedule.executions[k], MinuteStart(m))

\* the largest minute number among the returned occurrences
LatestMinute ==
    CHOOSE m \in {schedule.executions[k].min : k \in 1..Len(schedule.executions)} :
        \A k \in 1..Len(schedule.executions) : schedule.executions[k].min <= m

\* the calendar minutes that begin within the 7 x 24 hours after now and match
MatchesInNextWeek ==
    {m \in schedule.now.min..(schedule.now.min + 7 * MinutesPerDay) :
        /\ Later(MinuteStart(m), schedule.now)
        /\ ~Later(MinuteStart(m), AddMinutes(schedule.now, 7 * MinutesPerDay))
        /\ matchesCron(MinuteStart(m), parsed.value)}

\* the quick scan and the thorough search both contributed to the result
BothPhases ==
    /\ schedule.called
    /\ \E k \in 1..Len(schedule.executions) :
            schedule.executions[k].min < schedule.now.min + LOOKAHEAD_MINUTES
    /\ \E k \in 1..Len(schedule.executions) :
            schedule.executions[k].min >= schedule.now.min + LOOKAHEAD_MINUTES

\* C1: every occurrence returned by generateNextExecutions is strictly later
\* than now
C1_StrictlyAfterNow ==
    schedule.called =>
        \A k \in 1..Len(schedule.executions) :
            Later(schedule.executions[k], schedule.now)

\* C2: no calendar minute that begins after now and before the latest returned
\* occurrence matches the expression without an occurrence in it being returned
C2_NoGaps ==
    (schedule.called /\ Len(schedule.executions) > 0) =>
        \A m \in schedule.now.min..LatestMinute :
            (BeforeLatest(m) /\ matchesCron(MinuteStart(m), parsed.value))
                => Returned(m)

C2_Witness ==
    /\ BothPhases
    /\ Len(schedule.executions) = NEXT_EXECUTIONS_COUNT
    /\ schedule.now.ms # 0

\* C3: fewer than 5 occurrences returned means fewer than 5 matching calendar
\* minutes in the 7 x 24 hours after now, and none returned means none matching
C3_FewerMeansNoMore ==
    (schedule.called /\ Len(schedule.executions) < NEXT_EXECUTIONS_COUNT) =>
        /\ Cardinality(MatchesInNextWeek) < NEXT_EXECUTIONS_COUNT
        /\ Len(schedule.executions) = 0 => MatchesInNextWeek = {}

\* C4: every occurrence returned matches the compiled expression, from either
\* scan phase
C4_AllMatch ==
    schedule.called =>
        \A k \in 1..Len(schedule.executions) :
            matchesCron(schedule.executions[k], parsed.value)

C4_Witness ==
    /\ BothPhases
    /\ parsed.value.weekday.type = "list"

\* C5: the returned list is strictly ascending by timestamp
C5_StrictlyAscending ==
    schedule.called =>
        \A k \in 1..(Len(schedule.executions) - 1) :
            Later(schedule.executions[k + 1], schedule.executions[k])

\* both phases contributed and the thorough search met the quick scan's
\* timestamps again (now is on a minute boundary)
C5_Witness ==
    /\ BothPhases
    /\ schedule.now.ms = 0
    /\ Len(schedule.executions) >= 3

\* C6: never more than NEXT_EXECUTIONS_COUNT occurrences are returned
C6_AtMostCount ==
    schedule.called => Len(schedule.executions) <= NEXT_EXECUTIONS_COUNT

\* five returned although the minute after the last one matches too
C6_Witness ==
    /\ schedule.called
    /\ Len(schedule.executions) = NEXT_EXECUTIONS_COUNT
    /\ matchesCron(MinuteStart(LatestMinute + 1), parsed.value)

(***************************************************************************)
(* Properties of CronScheduler.matchesCron and CronParser.parse            *)
(***************************************************************************)
\* the date of the matchesCron call just made, with its calendar components
Sample == MatchDates[matchCall.sample]

\* C7: matchesCron is true exactly when each of the five fields matches the
\* calendar component of the date (minute, hour, day of month, month, weekday
\* with Sunday = 0); "30 14 * * 1,5" matches exactly 14:30 on Monday or Friday
C7_MatchesIffAllFields ==
    matchCall.called =>
        /\ matchCall.result =
              (/\ matchesField(Sample.minute, parsed.value.minute, 0, 59)
               /\ matchesField(Sample.hour, parsed.value.hour, 0, 23)
               /\ matchesField(Sample.day, parsed.value.day, 1, 31)
               /\ matchesField(Sample.month, parsed.value.month, 1, 12)
               /\ matchesField(Sample.weekday, parsed.value.weekday, 0, 7))
        /\ cronExpression = Expr(N(30), N(14), Star, Star, Comma(N(1), N(5))) =>
              matchCall.result =
                 (Sample.hour = 14 /\ Sample.minute = 30 /\ Sample.weekday \in {1, 5})

C7_Witness ==
    /\ matchCall.called
    /\ cronExpression = Expr(N(30), N(14), Star, Star, Comma(N(1), N(5)))
    /\ matchCall.result
    /\ Sample.weekday = 5

\* 0 and 7 exchanged
SwapSunday(v) == IF v = 0 THEN 7 ELSE IF v = 7 THEN 0 ELSE v

\* the weekday field with the other name of Sunday in a value or a list
OtherAlias(field) ==
    IF field.type = "value" THEN [field EXCEPT !.value = SwapSunday(field.value)]
    ELSE IF field.type = "list"
    THEN [field EXCEPT !.values = [i \in 1..Len(field.values) |-> SwapSunday(field.values[i])]]
    ELSE field

\* the weekday field is value 0, value 7, or a list that holds 0 or 7
NamesSunday(field) ==
    \/ field.type = "value" /\ field.value \in {0, 7}
    \/ field.type = "list" /\ \E i \in 1..Len(field.values) : field.values[i] \in {0, 7}

\* C8: a weekday value 0 and a weekday value 7 give the same answer for every
\* date, both match exactly the Sundays, and so does a list in which 0 is
\* replaced by 7
C8_WeekdayAlias ==
    (matchCall.called /\ NamesSunday(parsed.value.weekday)) =>
        /\ matchCall.result =
              matchesCron(Sample.date,
                          [parsed.value EXCEPT !.weekday = OtherAlias(parsed.value.weekday)])
        /\ parsed.value.weekday.type = "value" =>
              (matchesField(getDay(Sample.date), parsed.value.weekday, 0, 7)
                  <=> Sample.weekday = 0)

C8_Witness ==
    /\ matchCall.called
    /\ parsed.value.weekday = [type |-> "value", value |-> 7]
    /\ matchCall.result

\* every element of a value or list field lies in lo..hi
InDomain(field, lo, hi) ==
    CASE field.type = "value" -> lo <= field.value /\ field.value <= hi
      [] field.type = "list" ->
            \A i \in 1..Len(field.values) :
                lo <= field.values[i] /\ field.values[i] <= hi
      [] OTHER -> TRUE

\* C9: every value and every list element of a GrammarSpec returned by
\* CronParser.parse lies within the declared domain of its field
C9_DomainInvariant ==
    parsed.ok =>
        /\ InDomain(parsed.value.minute, 0, 59)
        /\ InDomain(parsed.value.hour, 0, 23)
        /\ InDomain(parsed.value.day, 1, 31)
        /\ InDomain(parsed.value.month, 1, 12)
        /\ InDomain(parsed.value.weekday, 0, 7)

(***************************************************************************)
(* Properties of NaturalLanguageParser.parse                               *)
(***************************************************************************)
\* C10: after every call of parse, whatever its input, getLastParserUsed()
\* is the path that produced the result of that call: "nlp" if step 1
\* returned it, "regex" if step 2 returned it, and null if the call
\* returned null
C10_LastParserIsLastPath ==
    nlCall.called =>
        /\ getLastParserUsed = nlCall.path
        /\ nlCall.returns = None => getLastParserUsed = "null"

\* the call just made went past the test of its input, so that step 1 ran
Step1Ran ==
    /\ nlCall.called
    /\ NLInputs[nlCall.input].type = "string"
    /\ trim(NLInputs[nlCall.input].value) # <<>>

\* what step 1 of the call just made yielded: the grammar string the
\* converter made of the result of the engine, None if either returned null
\* or the engine threw
Step1Result ==
    IF nlCall.nlpResult = Thrown THEN None ELSE convert(nlCall.nlpResult)

\* C11: in every call of parse that reaches step 1, a grammar string yielded
\* by the engine and the converter is what parse returns, without the regex
\* fallback being consulted; and the fallback is consulted only when the
\* engine returned null, the converter returned null or the engine threw
C11_ExtractorFirst ==
    Step1Ran =>
        /\ Step1Result # None =>
               nlCall.returns = Step1Result /\ ~nlCall.fallback
        /\ nlCall.fallback =>
               \/ nlCall.nlpResult = None
               \/ nlCall.nlpResult = Thrown
               \/ convert(nlCall.nlpResult) = None

\* a call that returned the string of step 1 for a text the regex fallback
\* has another answer for
C11_Witness ==
    /\ Step1Ran
    /\ Step1Result # None
    /\ nlCall.returns = Step1Result
    /\ parseWithRegex(NLInputs[nlCall.input].value) # None
    /\ parseWithRegex(NLInputs[nlCall.input].value) # Step1Result

UsablePatterns ==
    {i \in 1..Len(patterns) :
        /\ test(patterns[i].regex,
                trim(toLowerCase(NLInputs[nlCall.input].value)))
        /\ handle(patterns[i],
                  match(trim(toLowerCase(NLInputs[nlCall.input].value)),
                        patterns[i].regex),
                  trim(toLowerCase(NLInputs[nlCall.input].value))) # None}

\* C13: when the regex fallback runs, a pattern that matches and whose
\* handler returns a grammar string determines the result although an
\* earlier pattern matched and its handler returned null: the fallback
\* yields null only if no pattern matches with a handler that returns a
\* grammar string
C13_NullHandlerContinues ==
    nlCall.called /\ nlCall.fallback /\ nlCall.returns = None =>
        UsablePatterns = {}

\* the guard of rule k of convert on intent r, as the rules are listed
RuleGuard(k, r) ==
    CASE k = 1 -> r.weekdays # None /\ r.time # None /\ r.months # None
      [] k = 2 -> r.frequency # None /\ r.frequency[1].type = "interval"
      [] k = 3 -> r.frequency # None /\ r.frequency[1].type = "times_per"
      [] k = 4 -> r.weekdays # None /\ r.time # None
      [] k = 5 -> r.dayOfMonth # None /\ r.time # None
      [] k = 6 -> r.time # None /\ r.recurring = Some("daily")
      [] k = 7 -> r.recurring = Some("yearly") /\ r.months # None
      [] k = 8 -> r.recurring = Some("quarterly")
      [] k = 9 -> r.ordinal # None /\ r.weekdays # None
      [] k = 10 -> r.time # None
      [] k = 11 -> r.weekdays # None

\* what rule k of convert yields on intent r
RuleResult(k, r) ==
    CASE k = 1 -> Some(buildComplexSchedule(r))
      [] k = 2 -> buildIntervalSchedule(r)
      [] k = 3 -> buildTimesPerSchedule(r)
      [] k = 4 -> Some(buildWeeklySchedule(r))
      [] k = 5 -> Some(buildMonthlySchedule(r))
      [] k = 6 -> Some(buildDailySchedule(r))
      [] k = 7 -> Some(buildYearlySchedule(r))
      [] k = 8 -> Some(buildQuarterlySchedule(r))
      [] k = 9 -> Some(buildOrdinalSchedule(r))
      [] k = 10 -> Some(buildSimpleTimeSchedule(r))
      [] k = 11 -> Some(buildSimpleWeekdaySchedule(r))

ApplicableRules(r) == {k \in 1..11 : RuleGuard(k, r)}

\* the lowest-numbered rule whose guard holds on r, 0 when none holds
FirstRule(r) ==
    IF ApplicableRules(r) = {} THEN 0
    ELSE CHOOSE k \in ApplicableRules(r) :
             \A other \in ApplicableRules(r) : k <= other

ConvertCalled == convCall.called /\ convCall.method = "convert"

\* C14: convert applies the lowest-numbered of its 11 rules whose guard
\* holds on the intent, and returns null when no guard holds
C14_FirstApplicableRule ==
    ConvertCalled =>
        IF FirstRule(convCall.nlpResult) = 0
        THEN convCall.returns = None
        ELSE convCall.returns =
                 RuleResult(FirstRule(convCall.nlpResult), convCall.nlpResult)

\* an intent on which the weekly rule 4 and the monthly rule 5 both apply
\* and give different expressions, and convert returned that of rule 4
C14_Witness ==
    /\ ConvertCalled
    /\ FirstRule(convCall.nlpResult) = 4
    /\ RuleGuard(5, convCall.nlpResult)
    /\ convCall.returns = RuleResult(4, convCall.nlpResult)
    /\ convCall.returns # RuleResult(5, convCall.nlpResult)

\* the extractor returned an intent in the call just made
EngineIntent ==
    nlCall.called /\ nlCall.nlpResult # None /\ nlCall.nlpResult # Thrown

DefaultTime == Some([hour |-> 0, minute |-> 0, source |-> "default"])

\* some of weekdays, months, dayOfMonth and recurring is present in intent r
\* and extractTime finds no time in its normalized text
NeedsDefaultTime(r) ==
    /\ r.weekdays # None \/ r.months # None \/ r.dayOfMonth # None
       \/ r.recurring # None
    /\ extractTime(r.normalizedText, LibraryOutcomes[nlCall.chrono]) = None

OrdinalWeekdayIntent(r) ==
    /\ r.ordinal # None /\ r.ordinal[1].type = "weekday"
    /\ r.weekdays # None
    /\ r.frequency = None /\ r.months = None

\* C16: an intent with an ordinal of kind weekday and weekdays, without a
\* frequency and without months, is translated to the expression whose
\* day-of-month field is '1-7' and whose weekday field is the first weekday
\* of the set; 'first monday of every month' gives '0 0 1-7 * 1'
C16_OrdinalWeekdayApproximation ==
    EngineIntent /\ OrdinalWeekdayIntent(nlCall.nlpResult[1]) =>
        /\ nlCall.returns # None
        /\ \E minute, hour \in 0..59 :
               nlCall.returns[1] =
                   fields(ToStr(minute), ToStr(hour), Chars("1-7"), Chars("*"),
                          ToStr(nlCall.nlpResult[1].weekdays[1][1]))
        /\ NLInputs[nlCall.input] = StringInput("first monday of every month")
               => nlCall.returns = Some(Chars("0 0 1-7 * 1"))

\* the count/unit combinations of the times_per table
TimesPerTable ==
    {<<Chars("day"), 1>>, <<Chars("day"), 2>>, <<Chars("day"), 3>>,
     <<Chars("week"), 2>>, <<Chars("week"), 3>>, <<Chars("month"), 2>>}

\* C17: for an intent with a times_per frequency on which rule 1 does not
\* apply, convert yields an expression for the combinations day {1,2,3},
\* week {2,3} and month {2}, and null for every other count and unit
C17_TimesPerOnlyTabulated ==
    ConvertCalled /\ FirstRule(convCall.nlpResult) = 3 =>
        (convCall.returns # None
           <=> <<convCall.nlpResult.frequency[1].unit,
                 convCall.nlpResult.frequency[1].value>> \in TimesPerTable)

\* the minute and hour fields of an expression for intent r: those of its
\* time when it has one
MinuteAndHour(r, minute, hour) ==
    IF r.time # None
    THEN minute = ToStr(r.time[1].minute) /\ hour = ToStr(r.time[1].hour)
    ELSE \E m \in 0..59, h \in 0..23 : minute = ToStr(m) /\ hour = ToStr(h)

\* cron is the expression of the interval frequency of intent r
IntervalExpression(r, cron) ==
    LET unit == r.frequency[1].unit
        step == Chars("*/") \o ToStr(r.frequency[1].value)
        star == Chars("*")
    IN \E minute, hour \in {ToStr(n) : n \in 0..59} :
          /\ MinuteAndHour(r, minute, hour)
          /\ CASE unit = Chars("minute") ->
                     cron = fields(step, star, star, star, star)
                [] unit = Chars("hour") ->
                     cron = fields(minute, step, star, star, star)
                [] unit = Chars("day") ->
                     cron = fields(minute, hour, step, star, star)
                [] unit = Chars("month") ->
                     cron = fields(minute, hour,
                                   IF r.dayOfMonth # None
                                   THEN ToStr(r.dayOfMonth[1]) ELSE Chars("1"),
                                   step, star)
                [] unit = Chars("week") ->
                     cron = fields(minute, hour, star, star,
                                   IF r.weekdays # None
                                   THEN ToStr(r.weekdays[1][1]) ELSE Chars("1"))
                [] OTHER -> TRUE

\* the intent that the extractor returns for 'every 5 minutes'
EveryFiveMinutes ==
    LET r == SemanticNLPEngineParse(Chars("every 5 minutes"), None)[1]
    IN [frequency |-> r.frequency, time |-> r.time, weekdays |-> r.weekdays,
        months |-> r.months, dayOfMonth |-> r.dayOfMonth,
        ordinal |-> r.ordinal, recurring |-> r.recurring]

\* C18: for an intent with an interval frequency of N on which rule 1 does
\* not apply, convert yields '*/N * * * *' for minutes, '<min> */N * * *'
\* for hours, '<min> <hour> */N * *' for days, '<min> <hour> <dayOfMonth or
\* 1> */N *' for months and, whatever N, '<min> <hour> * * <first weekday
\* or 1>' for weeks; the intent of 'every 5 minutes' gives '*/5 * * * *'
C18_IntervalPerUnit ==
    ConvertCalled /\ FirstRule(convCall.nlpResult) = 2 =>
        /\ convCall.nlpResult.frequency[1].unit # Chars("year")
               => /\ convCall.returns # None
                  /\ IntervalExpression(convCall.nlpResult, convCall.returns[1])
        /\ convCall.nlpResult = EveryFiveMinutes
               => convCall.returns = Some(Chars("*/5 * * * *"))

\* convert was given the intent of 'every 5 minutes' 
C18_Witness ==
    /\ ConvertCalled
    /\ FirstRule(convCall.nlpResult) = 2
    /\ convCall.nlpResult = EveryFiveMinutes
    /\ convCall.returns = Some(Chars("*/5 * * * *"))

\* convert was given an interval of 5 weeks with a time and a weekday
C18_WitnessWeek ==
    /\ ConvertCalled
    /\ FirstRule(convCall.nlpResult) = 2
    /\ convCall.nlpResult.frequency[1].unit = Chars("week")
    /\ convCall.nlpResult.frequency[1].value = 5
    /\ convCall.returns = Some(Chars("30 14 * * 3"))

\* the expression that buildQuarterlySchedule gives for an intent that is
\* quarterly and nothing else
QuarterlyExpression ==
    buildQuarterlySchedule([frequency |-> None, time |-> None, weekdays |-> None,
                            months |-> None, dayOfMonth |-> None,
                            ordinal |-> None, recurring |-> Some("quarterly")])

C19_WitnessNoMatch ==
    /\ matchCall.called
    /\ cronExpression = QuarterlyExpression
    /\ Sample.month = 12 /\ Sample.day = 1 /\ Sample.hour = 0
    /\ ~matchCall.result

FormatWeekdaysCalled == convCall.called /\ convCall.method = "formatWeekdays"

\* the set of the days of the call of formatWeekdays just made
FormattedSet ==
    IF convCall.weekdays = None THEN {}
    ELSE {convCall.weekdays[1][i] : i \in 1..Len(convCall.weekdays[1])}

\* S is a set of 3 or more consecutive integers
IsRun(S) ==
    /\ Cardinality(S) >= 3
    /\ \E first, last \in S : S = first..last

\* C20: for every subset of 0..6, formatWeekdays gives the bare number for a
\* singleton, 'first-last' for 3 or more consecutive days, the ascending
\* comma list for any other set (two consecutive days and {0,1,5,6}
\* included), and '*' for an empty or missing set
C20_FormatWeekdays ==
    FormatWeekdaysCalled =>
        /\ FormattedSet = {} => convCall.returns = Chars("*")
        /\ \A d \in 0..6 : FormattedSet = {d} => convCall.returns = ToStr(d)
        /\ IsRun(FormattedSet) =>
               \E first, last \in FormattedSet :
                   /\ FormattedSet = first..last
                   /\ convCall.returns = ToStr(first) \o Chars("-") \o ToStr(last)
        /\ Cardinality(FormattedSet) >= 2 /\ ~IsRun(FormattedSet) =>
               convCall.returns = joinNumbers(Ascending(FormattedSet))
        /\ FormattedSet = {0, 1, 5, 6} => convCall.returns = Chars("0,1,5,6")
        /\ FormattedSet = {5, 6} => convCall.returns = Chars("5,6")

\* formatWeekdays was given [6, 5, 1, 0] and returned '0,1,5,6'
C20_Witness ==
    /\ FormatWeekdaysCalled
    /\ convCall.weekdays = Some(<<6, 5, 1, 0>>)
    /\ convCall.returns = Chars("0,1,5,6")

\* formatWeekdays was given [1, 2, 3, 4, 5] and returned '1-5'
C20_WitnessRange ==
    /\ FormatWeekdaysCalled
    /\ convCall.weekdays = Some(<<1, 2, 3, 4, 5>>)
    /\ convCall.returns = Chars("1-5")

(***************************************************************************)
(* Properties of the fields that CronParser.parse returns                  *)
(***************************************************************************)
\* the five tokens of the expression just compiled
Tokens == SplitWs(cronExpression)

\* token is written as two integers min and max with one '-' between them
\* and min <= max
WellFormedRange(token) ==
    \E min, max \in 0..99 : min <= max /\ token = Dash(min, max)

\* C21: a token with '-' and without '/' is accepted as a range only if it
\* is exactly two integers min <= max separated by one '-'; for every other
\* such token ('1-2-3', '1-5,7', '5-1') parse raises an error
C21_RangeTokenWellFormed ==
    parsed.ok =>
        \A i \in 1..Len(Tokens) :
            Contains(Tokens[i], "-") /\ ~Contains(Tokens[i], "/")
                => WellFormedRange(Tokens[i])

\* the five FieldSpecs of the GrammarSpec just returned
FieldSpecs ==
    <<parsed.value.minute, parsed.value.hour, parsed.value.day,
      parsed.value.month, parsed.value.weekday>>

\* C22: every step or rangeStep FieldSpec that CronParser.parse returns has
\* an integer step > 0 and integers min and max: the bounds of the domain
\* of its field for a step, the two integers of the left side min-max for
\* a rangeStep
C22_StepWellFormed ==
    parsed.ok =>
        \A i \in 1..5 :
            /\ FieldSpecs[i].type \in {"step", "rangeStep"} =>
                   /\ IsNum(FieldSpecs[i].step) /\ FieldSpecs[i].step > 0
                   /\ IsNum(FieldSpecs[i].min)
                   /\ IsNum(FieldSpecs[i].max)
            /\ FieldSpecs[i].type = "step" =>
                   /\ FieldSpecs[i].min = FieldMin[i]
                   /\ FieldSpecs[i].max = FieldMax[i]
            /\ FieldSpecs[i].type = "rangeStep" =>
                   Split(Tokens[i], "/")[1] =
                       Dash(FieldSpecs[i].min, FieldSpecs[i].max)

\* the minute, hour, day and month fields of the compiled expression match
\* the date of the matchesCron call just made
OtherFieldsMatch ==
    /\ matchesField(Sample.minute, parsed.value.minute, 0, 59)
    /\ matchesField(Sample.hour, parsed.value.hour, 0, 23)
    /\ matchesField(Sample.day, parsed.value.day, 1, 31)
    /\ matchesField(Sample.month, parsed.value.month, 1, 12)

CyclicInterval(start, end, first, last) ==
    IF start <= end THEN start..end
    ELSE (start..last) \cup (first..end)

C25_ReturnedExpressionCompiles ==
    nlCall.called /\ nlCall.returns # None =>
        CronParserParse(nlCall.returns[1]).ok

\* C26: no two of the occurrences that generateNextExecutions returns fall
\* within the same calendar minute, whatever the seconds and milliseconds
\* of now
C26_OnePerMinute ==
    schedule.called =>
        \A i, j \in 1..Len(schedule.executions) :
            i # j => schedule.executions[i].min # schedule.executions[j].min

\* the builder of the first rule whose guard holds on intent r yields null
FirstRuleYieldsNull(r) ==
    FirstRule(r) # 0 /\ RuleResult(FirstRule(r), r) = None

\* C27: when the builder of the first rule whose guard holds yields null,
\* convert returns null although the guard of a later rule may hold, and
\* parse returns what the regex fallback gives
C27_NullBuilderEndsConvert ==
    EngineIntent /\ FirstRuleYieldsNull(nlCall.nlpResult[1]) =>
        /\ nlCall.path # "nlp"
        /\ nlCall.fallback
        /\ nlCall.returns = parseWithRegex(NLInputs[nlCall.input].value)

\* '4 times a week at 3pm' was parsed: rule 3 yields null, the guard of
\* rule 10 holds, and the regex fallback gave the result
C27_Witness ==
    /\ EngineIntent
    /\ NLInputs[nlCall.input] = StringInput("4 times a week at 3pm")
    /\ FirstRule(nlCall.nlpResult[1]) = 3
    /\ FirstRuleYieldsNull(nlCall.nlpResult[1])
    /\ RuleGuard(10, nlCall.nlpResult[1])
    /\ nlCall.fallback
    /\ nlCall.path = "regex"
    /\ nlCall.returns = Some(Chars("0 15 * * *"))

\* the weekday field that CronParser makes of what formatWeekdays returned
FormattedField == parseField(convCall.returns, 0, 7)

\* C28: for every non-empty subset S of 0..6, the weekday field compiled
\* from formatWeekdays(S) matches a weekday number d of 0..6 iff d is in S
C28_FormatCompileMatch ==
    FormatWeekdaysCalled /\ FormattedSet # {} =>
        /\ FormattedField.ok
        /\ \A d \in 0..6 :
               matchesField(d, FormattedField.value, 0, 7) <=> d \in FormattedSet

\* formatWeekdays was given [0, 1, 5, 6]; the compiled field is a list that
\* matches 5 and does not match 3
C28_Witness ==
    /\ FormatWeekdaysCalled
    /\ FormattedSet = {0, 1, 5, 6}
    /\ FormattedField.ok
    /\ FormattedField.value.type = "list"
    /\ matchesField(5, FormattedField.value, 0, 7)
    /\ ~matchesField(3, FormattedField.value, 0, 7)

\* chrono.parse had a result to give in the call
ChronoAnswered(call) ==
    LibraryOutcomes[call.chrono] # None /\ LibraryOutcomes[call.chrono] # Thrown

\* C29: what parse returns depends only on the text: a call of parse with
\* the text of the call before it, in which the libraries find what they
\* found before, returns what the call before it returned
C29_SameTextSameResult ==
    [][(/\ nlCall.called /\ nlCall'.called
        /\ nlCall'.input = nlCall.input
        /\ ChronoAnswered(nlCall) /\ ChronoAnswered(nlCall'))
       => nlCall'.returns = nlCall.returns]_vars

(***************************************************************************)
(* Properties of CronChecker                                               *)
(***************************************************************************)
\* C30: after any sequence of input events, clear-button clicks, example
\* clicks and mode switches, the error message is never displayed while the
\* examples section is displayed.
C30_NoErrorWithExamples == ~(ui.errorMessage /\ ui.examplesSection)

====
